---- MODULE Spec2Model ----
(***************************************************************************)
(* Model of the web-novel service's job orchestrator (webnovel/main.py)    *)
(* over its record store (webnovel/db.py), extractor (webnovel/extractor.  *)
(* py), synthesis adapters (webnovel/tts.py) and search index (webnovel/   *)
(* search.py).                                                             *)
(*                                                                         *)
(* Granularity: a background task is cut at its suspension points (the     *)
(* awaits on fetch and synthesize) and after every commit of its own job   *)
(* row, so that every stored job state is a state of the model.  The       *)
(* store is SQLite: each helper commits before it returns.                 *)
(*                                                                         *)
(* Optional values (Python None) are encoded as <<>> and a present value   *)
(* v as <<v>>.  A text is a sequence of paragraphs, a paragraph a sequence *)
(* of sentence lengths (characters).  reply is the response to the most    *)
(* recent request.  The functions of extractor.py and tts.py that the      *)
(* service treats as single steps are also modelled by themselves, one     *)
(* specification each, over the variable call.                             *)
(***************************************************************************)
EXTENDS Integers, Sequences, FiniteSets, TLC

VARIABLES novels, chapters, jobs, files, task, reply, call

vars == <<novels, chapters, jobs, files, task, reply, call>>

(* the state of the service; call is the state of one call of a function   *)
(* of extractor.py or tts.py taken by itself                               *)
service == <<novels, chapters, jobs, files, task, reply>>

----------------------------------------------------------------------------
(* Bounds of the model *)

MaxJobs == 2
MaxSynthJobs == 2
MaxLinks == 2
MaxRetries == 4
MaxAnchors == 3
MaxChapters == 3
MaxParagraphs == 2
MaxSentences == 2
MaxChunkChars == 6
MaxContainers == 3
MaxNovels == 3
MaxTotal == 50
MaxBackoff == 2

(* Program constants *)

MAX_NOVEL_SIZE == 3000000
max_chars == 3200
chars_per_second == 15
EXTRACT_SHARE == 50
TTS_SHARE == 90

None == <<>>
Some(v) == <<v>>

PROVIDERS == {"silent", "openai"}
(* the values a request body can carry under "provider" *)
ProviderNames == PROVIDERS \cup {"other"}

(* Inputs the environment can supply *)

TocUrls == {"t1", "t2"}
LinkUrls == {"c1", "c2"}
ShortText == << <<20>> >>
LongText == << <<3000, 2000>> >>
(* the readable content served at a URL, when the fetch succeeds and the   *)
(* page is not empty                                                       *)
Web(url) == IF url = "c2" THEN LongText ELSE ShortText
Responses(url) == {None, Some(<<>>), Some(Web(url))}
Links == [url : LinkUrls, chapter : BOOLEAN]
Pages == UNION {[1..n -> Links] : n \in 0..MaxLinks}

JobIds == 1..(MaxJobs + MaxSynthJobs)

----------------------------------------------------------------------------
(* Sequence helpers *)

RECURSIVE SumSeq(_)
SumSeq(s) == IF s = <<>> THEN 0 ELSE Head(s) + SumSeq(Tail(s))

RECURSIVE Flatten(_)
Flatten(ss) == IF ss = <<>> THEN <<>> ELSE Head(ss) \o Flatten(Tail(ss))

Range(s) == {s[i] : i \in DOMAIN s}

(* length of " ".join(spans) *)
JoinLen(spans) == IF spans = <<>> THEN 0 ELSE SumSeq(spans) + (Len(spans) - 1)

----------------------------------------------------------------------------
(* extractor.py *)

(* discover_chapter_urls, lines 159-176: keep the links whose text or href *)
(* contains "chapter", then deduplicate preserving first-seen order.       *)
RECURSIVE UniqueLinks(_, _)
UniqueLinks(links, seen) ==
  IF links = <<>> THEN <<>>
  ELSE IF Head(links) \in seen THEN UniqueLinks(Tail(links), seen)
  ELSE <<Head(links)>> \o UniqueLinks(Tail(links), seen \cup {Head(links)})

(* a discovery that keeps every link *)
RECURSIVE MatchingLinksAll(_)
MatchingLinksAll(page) ==
  IF page = <<>> THEN <<>>
  ELSE <<Head(page).url>> \o MatchingLinksAll(Tail(page))

RECURSIVE MatchingLinks(_)
MatchingLinks(page) ==
  IF page = <<>> THEN <<>>
  ELSE (IF Head(page).chapter THEN <<Head(page).url>> ELSE <<>>)
       \o MatchingLinks(Tail(page))

(* html_doc is None when fetch_html gave up *)
discover_chapter_urls(html_doc) ==
  IF html_doc = None THEN <<>>
  ELSE UniqueLinks(MatchingLinks(html_doc[1]), {})

(* len(content): sentences of a paragraph are separated by one space,      *)
(* paragraphs by "\n\n"                                                    *)
RECURSIVE ContentLen(_)
ContentLen(content) ==
  IF content = <<>> THEN 0
  ELSE JoinLen(Head(content))
       + (IF Tail(content) = <<>> THEN 0 ELSE 2 + ContentLen(Tail(content)))

(* content[:n] on one paragraph and on a content *)
RECURSIVE ClipParagraph(_, _)
ClipParagraph(p, n) ==
  IF p = <<>> \/ n <= 0 THEN <<>>
  ELSE IF Head(p) >= n THEN <<n>>
  ELSE <<Head(p)>> \o ClipParagraph(Tail(p), n - Head(p) - 1)

RECURSIVE ClipContent(_, _)
ClipContent(content, n) ==
  IF content = <<>> \/ n <= 0 THEN <<>>
  ELSE IF JoinLen(Head(content)) >= n THEN <<ClipParagraph(Head(content), n)>>
  ELSE <<Head(content)>>
       \o ClipContent(Tail(content), n - JoinLen(Head(content)) - 2)

(* extract_chapter, lines 134-143: None when the fetch failed or the       *)
(* extracted content is empty; longer content is cut to MAX_NOVEL_SIZE.    *)
extract_chapter(html_doc) ==
  IF html_doc = None THEN None
  ELSE IF html_doc[1] = <<>> THEN None
  ELSE IF ContentLen(html_doc[1]) > MAX_NOVEL_SIZE
       THEN Some([text |-> ClipContent(html_doc[1], MAX_NOVEL_SIZE)])
       ELSE Some([text |-> html_doc[1]])

----------------------------------------------------------------------------
(* tts.py *)

(* chunk_text, lines 91-104, over the sentence list built in lines 84-90   *)
RECURSIVE Accumulate(_, _, _)
Accumulate(sentences, buf, current_len) ==
  IF sentences = <<>>
  THEN IF buf # <<>> THEN <<buf>> ELSE <<>>
  ELSE LET sentence == Head(sentences)
           sent_len == sentence
       IN IF current_len + sent_len + 1 > max_chars /\ buf # <<>>
          THEN <<buf>> \o Accumulate(Tail(sentences), <<sentence>>, sent_len)
          ELSE Accumulate(Tail(sentences), Append(buf, sentence),
                          current_len + sent_len + 1)

chunk_text(text) == Accumulate(Flatten(text), <<>>, 0)

(* DummyTTSProvider.synthesize / OpenAITTSProvider.synthesize: duration    *)
(* max(1, ceil(len(text) / chars_per_second))                              *)
synth_seconds(chunk) ==
  LET n == JoinLen(chunk)
      c == (n + chars_per_second - 1) \div chars_per_second
  IN IF c < 1 THEN 1 ELSE c

----------------------------------------------------------------------------
(* db.py *)

(* insert_novel, lines 118-149.  novels has a PRIMARY KEY on id and a      *)
(* UNIQUE constraint on source_url.  The INSERT fails with IntegrityError  *)
(* on either; the fallback UPDATE ... WHERE id = ? then changes the row    *)
(* with that id, or no row at all when the id is new.                      *)
SourceUrlTaken(tbl, id, url) ==
  \E o \in DOMAIN tbl : o # id /\ tbl[o].source_url = url

insert_novel_raises(tbl, id, r) ==
  id \in DOMAIN tbl /\ SourceUrlTaken(tbl, id, r.source_url)

insert_novel(tbl, id, r) ==
  IF id \in DOMAIN tbl THEN [tbl EXCEPT ![id] = r]
  ELSE IF SourceUrlTaken(tbl, id, r.source_url) THEN tbl
  ELSE tbl @@ (id :> r)

(* update_novel_status, lines 271-281 *)
update_novel_status(tbl, id, status) ==
  IF id \in DOMAIN tbl THEN [tbl EXCEPT ![id].status = status] ELSE tbl

(* get_novel, lines 306-313 *)
get_novel(tbl, id) == IF id \in DOMAIN tbl THEN Some(tbl[id]) ELSE None

(* insert_chapter, lines 160-192: insert, or update the row with that id   *)
insert_chapter(tbl, id, r) ==
  IF id \in DOMAIN tbl THEN [tbl EXCEPT ![id] = r] ELSE tbl @@ (id :> r)

(* insert_job, lines 201-224, with a fresh id *)
insert_job(tbl, r) == Append(tbl, r)

(* update_job, lines 227-256: only the arguments that are not None are     *)
(* written                                                                 *)
update_job(tbl, job_id, status, progress, error) ==
  IF job_id \notin DOMAIN tbl THEN tbl
  ELSE [tbl EXCEPT ![job_id] =
          [@ EXCEPT !.status = IF status = None THEN @ ELSE status[1],
                    !.progress = IF progress = None THEN @ ELSE progress[1],
                    !.error = IF error = None THEN @ ELSE error]]

(* an update that leaves tts_provider as it was *)
update_chapter_audio_partial(tbl, chapter_id, audio_path, duration, provider) ==
  IF chapter_id \notin DOMAIN tbl THEN tbl
  ELSE [tbl EXCEPT ![chapter_id] =
          [@ EXCEPT !.audio_path = Some(audio_path),
                    !.duration_seconds = Some(duration),
                    !.status = "ready"]]

(* update_chapter_audio_info, lines 284-303 *)
update_chapter_audio_info(tbl, chapter_id, audio_path, duration, provider) ==
  IF chapter_id \notin DOMAIN tbl THEN tbl
  ELSE [tbl EXCEPT ![chapter_id] =
          [@ EXCEPT !.audio_path = Some(audio_path),
                    !.duration_seconds = Some(duration),
                    !.tts_provider = Some(provider),
                    !.status = "ready"]]

(* get_chapter, lines 316-323 *)
get_chapter(tbl, chapter_id) ==
  IF chapter_id \in DOMAIN tbl THEN Some(tbl[chapter_id]) ELSE None

(* get_chapters, lines 326-336: the rows of the novel, ORDER BY idx ASC.   *)
(* Each element carries the row's id.                                      *)
SortByIdx(rows) ==
  LET f[rest \in SUBSET rows] ==
        IF rest = {} THEN <<>>
        ELSE LET m == CHOOSE r \in rest : \A o \in rest : r.idx <= o.idx
             IN <<m>> \o f[rest \ {m}]
  IN f[rows]

get_chapters(tbl, novel_id) ==
  SortByIdx({[id |-> i, idx |-> tbl[i].idx, row |-> tbl[i]] :
               i \in {k \in DOMAIN tbl : tbl[k].novel_id = novel_id}})

----------------------------------------------------------------------------
(* main.py: state of the background tasks *)

(* Paths under BASE_DIR / novel_id *)
TextPath(novel_id, idx) == <<"chapter.txt", novel_id, idx>>
AudioPath(novel_id, idx) == <<"chapter.mp3", novel_id, idx>>
TxtPackagePath(novel_id) == <<"novel.txt", novel_id, 0>>
EpubPackagePath(novel_id) == <<"novel.epub", novel_id, 0>>

(* a write that leaves an existing file as it is *)
write_file_keep(fs, path, data, by) ==
  IF path \in DOMAIN fs THEN fs
  ELSE fs @@ (path :> [data |-> data, by |-> by])

(* open(path, "w") and write: the file holds data; by is the job that      *)
(* wrote it (history)                                                      *)
write_file(fs, path, data, by) ==
  IF path \in DOMAIN fs THEN [fs EXCEPT ![path] = [data |-> data, by |-> by]]
  ELSE fs @@ (path :> [data |-> data, by |-> by])

(* str(uuid.uuid4()) for the chapter of position idx of a novel *)
ChapterId(novel_id, idx) == <<novel_id, idx>>
NoChapter == <<0, 0>>

(* Local variables of one background task.  The last six fields are       *)
(* history the code does not keep: fault says why the task entered its     *)
(* except clause or returned early; toc_empty, that the table-of-contents  *)
(* fetch failed or the page had no link with "chapter"; called holds the   *)
(* chapters the task called synthesize for; stale, those among them whose  *)
(* stored record already had audio when work on them began; wrote, the     *)
(* audio info the task stored, by chapter; after, the jobs whose task had  *)
(* returned when this one read its chapter list; textless, the positions   *)
(* of that list whose text was missing when it was read.                   *)
NewTask(novel_id, url, chapter_id, provider_name) ==
  [pc |-> "queued", novel_id |-> novel_id, url |-> url,
   chapter_id |-> chapter_id, provider_name |-> provider_name,
   chapter_urls |-> <<>>, idx |-> 0, chapters_data |-> <<>>,
   chapters |-> <<>>, chunks |-> <<>>, cidx |-> 0,
   audio_bytes |-> <<>>, total_duration |-> 0,
   fault |-> "", toc_empty |-> FALSE, called |-> {}, stale |-> {},
   wrote |-> <<>>, after |-> {}, textless |-> {}]

Init ==
  /\ novels = <<>>
  /\ chapters = <<>>
  /\ jobs = <<>>
  /\ files = <<>>
  /\ task = <<>>
  /\ reply = None
  /\ call = None

(* int((idx / total) * share) in binary64 arithmetic.  A float is its      *)
(* significand, a sequence of bits with the most significant first, and    *)
(* the exponent exp: the value is the integer the bits spell times 2^exp.  *)
SIGNIFICAND_BITS == 53

Bit == {0, 1}

bits_of(n) ==
  LET f[m \in Nat] == IF m = 0 THEN <<>> ELSE Append(f[m \div 2], m % 2)
  IN f[n]

int_of(bits) ==
  LET f[k \in 0..Len(bits)] == IF k = 0 THEN 0 ELSE 2 * f[k - 1] + bits[k]
  IN f[Len(bits)]

two_to(k) ==
  LET f[m \in Nat] == IF m = 0 THEN 1 ELSE 2 * f[m - 1]
  IN f[k]

increment(bits) ==
  LET f[b \in Seq(Bit)] ==
        IF b = <<>> THEN <<1>>
        ELSE IF b[Len(b)] = 0 THEN [b EXCEPT ![Len(b)] = 1]
        ELSE Append(f[SubSeq(b, 1, Len(b) - 1)], 0)
  IN f[bits]

(* round to nearest, ties to even, to SIGNIFICAND_BITS bits *)
round_to_nearest(x) ==
  LET f[y \in [bits : Seq(Bit), exp : Int]] ==
        IF Len(y.bits) <= SIGNIFICAND_BITS THEN y
        ELSE LET keep == SubSeq(y.bits, 1, SIGNIFICAND_BITS)
                 rest == SubSeq(y.bits, SIGNIFICAND_BITS + 1, Len(y.bits))
                 sticky == \E k \in 2..Len(rest) : rest[k] = 1
                 up == rest[1] = 1 /\ (sticky \/ keep[SIGNIFICAND_BITS] = 1)
                 m == IF up THEN increment(keep) ELSE keep
             IN IF Len(m) > SIGNIFICAND_BITS
                THEN [bits |-> SubSeq(m, 1, SIGNIFICAND_BITS),
                      exp |-> y.exp + Len(rest) + 1]
                ELSE [bits |-> m, exp |-> y.exp + Len(rest)]
  IN f[x]

(* the long division of a remainder r by d after the quotient bits acc,    *)
(* frac of them after the binary point, up to one bit more than the        *)
(* significand and a last bit that tells whether a remainder is left       *)
quotient_bits(q, d) ==
  LET f[r \in Nat, acc \in Seq(Bit), frac \in Nat] ==
        IF r = 0 THEN [bits |-> acc, exp |-> 0 - frac]
        ELSE IF Len(acc) = SIGNIFICAND_BITS + 1
        THEN [bits |-> Append(acc, 1), exp |-> 0 - (frac + 1)]
        ELSE IF 2 * r >= d
        THEN f[2 * r - d, Append(acc, 1), frac + 1]
        ELSE f[2 * r, IF acc = <<>> THEN acc ELSE Append(acc, 0), frac + 1]
  IN f[q.r, q.acc, q.frac]

(* idx / total of two ints *)
true_divide(idx, total) ==
  round_to_nearest(quotient_bits([r |-> idx % total,
                                  acc |-> bits_of(idx \div total),
                                  frac |-> 0], total))

(* the bits of a significand times a small int, with a carry *)
times_bits(bits, n, carry) ==
  LET f[b \in Seq(Bit), c \in Nat] ==
        IF b = <<>> THEN bits_of(c)
        ELSE Append(f[SubSeq(b, 1, Len(b) - 1), (b[Len(b)] * n + c) \div 2],
                    (b[Len(b)] * n + c) % 2)
  IN f[bits, carry]

(* x * n for a float x and an int n *)
float_times(x, n) ==
  round_to_nearest([bits |-> times_bits(x.bits, n, 0), exp |-> x.exp])

(* int(x) of a float that is not negative *)
float_to_int(x) ==
  LET f[y \in [bits : Seq(Bit), exp : Int]] ==
        IF y.exp >= 0 THEN int_of(y.bits) * two_to(y.exp)
        ELSE IF 0 - y.exp >= Len(y.bits) THEN 0
        ELSE int_of(SubSeq(y.bits, 1, Len(y.bits) + y.exp))
  IN f[x]

Progress(idx, total, share) ==
  float_to_int(float_times(true_divide(idx, total), share))

----------------------------------------------------------------------------
(* main.py: request handlers that create jobs *)

(* JSONResponse({"job_id": job_id, ...}) and                               *)
(* HTTPException(status_code=400, detail="Unknown TTS provider")           *)
Accepted(job_id) == Some([code |-> "200", job_id |-> job_id])
Rejected == Some([code |-> "400", detail |-> "Unknown TTS provider"])

(* novel_endpoint, lines 262-290; the fresh novel id is the number of the  *)
(* job created with it                                                     *)
novel_endpoint(url) ==
  /\ LET job_id == Len(jobs) + 1
         novel_id == job_id
     IN /\ novels' = insert_novel(novels, novel_id,
                        [source_url |-> url, num_chapters |-> None,
                         status |-> "extracting"])
        /\ jobs' = insert_job(jobs,
                        [type |-> "extract", novel_id |-> Some(novel_id),
                         status |-> "queued", progress |-> 0, error |-> None])
        /\ task' = Append(task, NewTask(novel_id, url, NoChapter, ""))
        /\ reply' = Accepted(job_id)
  /\ UNCHANGED <<chapters, files, call>>

(* tts_chapter_endpoint, lines 300-319 *)
tts_chapter_endpoint(chapter_id, provider_name) ==
  IF provider_name \notin PROVIDERS
  THEN /\ reply' = Rejected
       /\ UNCHANGED <<novels, chapters, jobs, files, task, call>>
  ELSE /\ jobs' = insert_job(jobs,
                     [type |-> "tts_chapter", novel_id |-> None,
                      status |-> "queued", progress |-> 0, error |-> None])
       /\ task' = Append(task, NewTask(0, "", chapter_id, provider_name))
       /\ reply' = Accepted(Len(jobs) + 1)
       /\ UNCHANGED <<novels, chapters, files, call>>

(* tts_novel_endpoint, lines 325-344 *)
(* a handler that creates the job whatever the provider name *)
tts_novel_endpoint_unchecked(novel_id, provider_name) ==
  /\ jobs' = insert_job(jobs,
                [type |-> "tts_novel", novel_id |-> Some(novel_id),
                 status |-> "queued", progress |-> 0, error |-> None])
  /\ task' = Append(task, NewTask(novel_id, "", NoChapter, provider_name))
  /\ reply' = Accepted(Len(jobs) + 1)
  /\ UNCHANGED <<novels, chapters, files, call>>

tts_novel_endpoint(novel_id, provider_name) ==
  IF provider_name \notin PROVIDERS
  THEN /\ reply' = Rejected
       /\ UNCHANGED <<novels, chapters, jobs, files, task, call>>
  ELSE /\ jobs' = insert_job(jobs,
                     [type |-> "tts_novel", novel_id |-> Some(novel_id),
                      status |-> "queued", progress |-> 0, error |-> None])
       /\ task' = Append(task, NewTask(novel_id, "", NoChapter, provider_name))
       /\ reply' = Accepted(Len(jobs) + 1)
       /\ UNCHANGED <<novels, chapters, files, call>>

----------------------------------------------------------------------------
(* main.py: background_extract_novel *)

IsTask(j, type, pc) ==
  j \in DOMAIN jobs /\ jobs[j].type = type /\ task[j].pc = pc

Returned == {k \in DOMAIN jobs : task[k].pc = "returned"}

(* except clause, lines 146-148 *)
ExtractExcept(j, fault, novels1) ==
  /\ jobs' = update_job(jobs, j, Some("error"), None, Some(fault))
  /\ novels' = update_novel_status(novels1, task[j].novel_id, "error")
  /\ task' = [task EXCEPT ![j].pc = "returned", ![j].fault = fault]

(* line 84, up to the await of line 86 *)
ExtractStart(j) ==
  /\ IsTask(j, "extract", "queued")
  /\ UNCHANGED <<reply, call>>
  /\ jobs' = update_job(jobs, j, Some("running"), Some(0), None)
  /\ task' = [task EXCEPT ![j].pc = "discover"]
  /\ UNCHANGED <<novels, chapters, files>>

(* lines 86-92: discovery returns (or raises on a link httpx cannot        *)
(* resolve), up to the await of the first extract_chapter                  *)
ExtractDiscovered(j) ==
  /\ IsTask(j, "extract", "discover")
  /\ UNCHANGED <<reply, call>>
  /\ \/ /\ ExtractExcept(j, "discover raised", novels)
        /\ UNCHANGED <<chapters, files>>
     \/ \E html_doc \in {None} \cup {Some(p) : p \in Pages} :
          LET found == discover_chapter_urls(html_doc)
              chapter_urls == IF found = <<>> THEN <<task[j].url>> ELSE found
          IN /\ task' = [task EXCEPT
                  ![j].pc = "extract",
                  ![j].chapter_urls = chapter_urls,
                  ![j].idx = 1,
                  ![j].toc_empty =
                     \/ html_doc = None
                     \/ \A i \in DOMAIN html_doc[1] : ~html_doc[1][i].chapter]
             /\ UNCHANGED <<novels, chapters, jobs, files>>

(* an enumeration of the chapter URLs that counts from 0 *)
chapter_record_from_zero(novel_id, idx, chapter_url, text_filename) ==
  [novel_id |-> novel_id, idx |-> idx - 1, source_url |-> chapter_url,
   text_path |-> Some(text_filename), audio_path |-> None,
   duration_seconds |-> None, tts_provider |-> None, status |-> "ready"]

(* lines 106-117, with idx and chapter_url of the enumerate of line 91 *)
chapter_record(novel_id, idx, chapter_url, text_filename) ==
  [novel_id |-> novel_id, idx |-> idx, source_url |-> chapter_url,
   text_path |-> Some(text_filename), audio_path |-> None,
   duration_seconds |-> None, tts_provider |-> None, status |-> "ready"]

(* lines 92-122: extract_chapter returns for chapter idx; the chapter is   *)
(* written and recorded, up to the next await or the end of the loop       *)
ExtractChapterDone(j) ==
  /\ IsTask(j, "extract", "extract")
  /\ UNCHANGED <<reply, call>>
  /\ \E html_doc \in Responses(task[j].chapter_urls[task[j].idx]),
        io \in {"ok", "file write raised", "store write raised"} :
       LET t == task[j]
           idx == t.idx
           total == Len(t.chapter_urls)
           chap == extract_chapter(html_doc)
           text_filename == TextPath(t.novel_id, idx)
           record == chapter_record(t.novel_id, idx, t.chapter_urls[idx],
                                    text_filename)
       IN IF chap = None
          THEN /\ io = "ok"
               /\ jobs' = update_job(jobs, j, Some("error"), None,
                                     Some("Failed to extract chapter"))
               /\ novels' = update_novel_status(novels, t.novel_id, "error")
               /\ task' = [task EXCEPT ![j].pc = "returned",
                                       ![j].fault = "extract failed"]
               /\ UNCHANGED <<chapters, files>>
          ELSE IF io = "file write raised"
          THEN /\ ExtractExcept(j, io, novels)
               /\ UNCHANGED <<chapters, files>>
          ELSE IF io = "store write raised"
          THEN /\ files' = write_file(files, text_filename, chap[1].text, j)
               /\ ExtractExcept(j, io, novels)
               /\ UNCHANGED chapters
          ELSE /\ files' = write_file(files, text_filename, chap[1].text, j)
               /\ chapters' = insert_chapter(chapters,
                                 ChapterId(t.novel_id, idx), record)
               /\ jobs' = update_job(jobs, j, None,
                             Some(Progress(idx, total, EXTRACT_SHARE)), None)
               /\ task' = [task EXCEPT
                    ![j].chapters_data = Append(@, chap[1].text),
                    ![j].idx = IF idx < total THEN idx + 1 ELSE idx,
                    ![j].pc = IF idx < total THEN "extract" ELSE "finalize"]
               /\ UNCHANGED novels

(* package_txt, extractor.py lines 187-195, and package_epub, lines        *)
(* 314-328; the package holds the chapters in the order supplied           *)
package_txt(fs, novel_id, chapters_data, by) ==
  write_file(fs, TxtPackagePath(novel_id), chapters_data, by)

package_epub_raises(chapters_data) == chapters_data = <<>>

package_epub(fs, novel_id, chapters_data, by) ==
  write_file(fs, EpubPackagePath(novel_id), chapters_data, by)

(* lines 124-143: novel row, the two packages, job done *)
ExtractFinalize(j) ==
  /\ IsTask(j, "extract", "finalize")
  /\ UNCHANGED <<reply, call>>
  /\ \E io \in {"ok", "txt package raised", "epub package raised"} :
       LET t == task[j]
           total == Len(t.chapter_urls)
           r == [source_url |-> t.url, num_chapters |-> Some(total),
                 status |-> "ready"]
           novels1 == insert_novel(novels, t.novel_id, r)
           files1 == package_txt(files, t.novel_id, t.chapters_data, j)
           files2 == package_epub(files1, t.novel_id, t.chapters_data, j)
       IN IF insert_novel_raises(novels, t.novel_id, r)
          THEN /\ io = "ok"
               /\ ExtractExcept(j, "store write raised", novels)
               /\ UNCHANGED <<chapters, files>>
          ELSE IF io = "txt package raised"
          THEN /\ ExtractExcept(j, io, novels1)
               /\ UNCHANGED <<chapters, files>>
          ELSE IF io = "epub package raised" \/ package_epub_raises(t.chapters_data)
          THEN /\ files' = files1
               /\ ExtractExcept(j, "epub package raised", novels1)
               /\ UNCHANGED chapters
          ELSE /\ files' = files2
               /\ novels' = novels1
               /\ jobs' = update_job(jobs, j, Some("done"), Some(100), None)
               /\ task' = [task EXCEPT ![j].pc = "index"]
               /\ UNCHANGED chapters

(* search.update_index, search.py lines 66-93: a no-op without Whoosh;     *)
(* with Whoosh, opening the index or its writer can raise                  *)
IndexOutcomes == {"ok", "index update raised"}

(* line 145: _format_novel_for_search(db.get_novel(novel_id)) subscripts   *)
(* its argument, which is None when the novel row does not exist           *)
ExtractIndex(j) ==
  /\ IsTask(j, "extract", "index")
  /\ UNCHANGED <<reply, call>>
  /\ \E io \in IndexOutcomes :
       IF get_novel(novels, task[j].novel_id) = None
       THEN /\ io = "ok"
            /\ ExtractExcept(j, "'NoneType' object is not subscriptable", novels)
       ELSE IF io = "ok"
       THEN /\ task' = [task EXCEPT ![j].pc = "returned"]
            /\ UNCHANGED <<novels, jobs>>
       ELSE ExtractExcept(j, io, novels)
  /\ UNCHANGED <<chapters, files>>

----------------------------------------------------------------------------
(* main.py: background_tts_chapter and background_tts_novel *)

AudioInfo(audio_path, duration, provider) ==
  [audio_path |-> Some(audio_path), duration_seconds |-> Some(duration),
   tts_provider |-> Some(provider)]

(* an except clause that does not write the job row *)
TtsExceptPass(j, fault) ==
  /\ jobs' = jobs
  /\ task' = [task EXCEPT ![j].pc = "returned", ![j].fault = fault]

(* except clauses, lines 192-193 and 236-237 *)
TtsExcept(j, fault) ==
  /\ jobs' = update_job(jobs, j, Some("error"), None, Some(fault))
  /\ task' = [task EXCEPT ![j].pc = "returned", ![j].fault = fault]

(* provider.synthesize(chunk): the silent provider always answers, the     *)
(* remote one can raise (tts.py lines 181-187)                             *)
SynthOutcomes(provider_name) ==
  IF provider_name = "silent" THEN {"ok"} ELSE {"ok", "synthesis raised"}

chunk_audio(provider_name, chunk) == [provider |-> provider_name, text |-> chunk]

(* a concatenation that puts the new bytes first *)
concat_audio_before(audio_bytes, audio) == <<audio>> \o audio_bytes

(* audio_bytes += chunk_audio, lines 172 and 222 *)
concat_audio(audio_bytes, audio) == Append(audio_bytes, audio)

(* not chapter.get("text_path") or not os.path.exists(chapter["text_path"]) *)
TextMissing(row) == row.text_path = None \/ row.text_path[1] \notin DOMAIN files

(* lines 154-157 and 199-202 *)
TtsStart(j, type) ==
  /\ IsTask(j, type, "queued")
  /\ UNCHANGED <<reply, call>>
  /\ IF task[j].provider_name \notin PROVIDERS
     THEN TtsExcept(j, "Unknown TTS provider")
     ELSE /\ jobs' = update_job(jobs, j, Some("running"), Some(0), None)
          /\ task' = [task EXCEPT ![j].pc = "load"]
  /\ UNCHANGED <<novels, chapters, files>>

TtsChapterStart(j) == TtsStart(j, "tts_chapter")

(* lines 158-171: load the chapter and its text, chunk it, up to the       *)
(* await of the first synthesize                                           *)
TtsChapterLoad(j) ==
  /\ IsTask(j, "tts_chapter", "load")
  /\ UNCHANGED <<reply, call>>
  /\ LET chapter == get_chapter(chapters, task[j].chapter_id)
     IN IF chapter = None THEN TtsExcept(j, "Chapter not found")
        ELSE IF TextMissing(chapter[1]) THEN TtsExcept(j, "Chapter text file missing")
        ELSE LET chunks == chunk_text(files[chapter[1].text_path[1]].data)
             IN /\ task' = [task EXCEPT
                     ![j].pc = IF chunks = <<>> THEN "save" ELSE "synth",
                     ![j].chapters = <<[id |-> task[j].chapter_id,
                                        idx |-> chapter[1].idx,
                                        row |-> chapter[1]]>>,
                     ![j].idx = 1,
                     ![j].chunks = chunks,
                     ![j].cidx = 1,
                     ![j].called = IF chunks = <<>> THEN @
                                   ELSE @ \cup {task[j].chapter_id},
                     ![j].stale = IF chunks # <<>> /\ chapter[1].audio_path # None
                                  THEN @ \cup {task[j].chapter_id} ELSE @]
                /\ UNCHANGED jobs
  /\ UNCHANGED <<novels, chapters, files>>

(* lines 171-176: one synthesize call returns *)
TtsChapterSynth(j) ==
  /\ IsTask(j, "tts_chapter", "synth")
  /\ UNCHANGED <<reply, call>>
  /\ \E out \in SynthOutcomes(task[j].provider_name) :
       LET t == task[j]
           chunk == t.chunks[t.cidx]
           total_chunks == Len(t.chunks)
       IN IF out # "ok" THEN TtsExcept(j, out)
          ELSE /\ jobs' = update_job(jobs, j, None,
                             Some(Progress(t.cidx, total_chunks, TTS_SHARE)), None)
               /\ task' = [task EXCEPT
                    ![j].audio_bytes =
                       concat_audio(@, chunk_audio(t.provider_name, chunk)),
                    ![j].total_duration = @ + synth_seconds(chunk),
                    ![j].cidx = IF t.cidx < total_chunks THEN @ + 1 ELSE @,
                    ![j].pc = IF t.cidx < total_chunks THEN "synth" ELSE "save"]
  /\ UNCHANGED <<novels, chapters, files>>

(* lines 178-187: audio file, chapter row, job done *)
TtsChapterSave(j) ==
  /\ IsTask(j, "tts_chapter", "save")
  /\ UNCHANGED <<reply, call>>
  /\ \E io \in {"ok", "file write raised"} :
       LET t == task[j]
           chapter == t.chapters[1]
           audio_path == AudioPath(chapter.row.novel_id, chapter.idx)
       IN IF io # "ok"
          THEN /\ TtsExcept(j, io)
               /\ UNCHANGED <<chapters, files>>
          ELSE /\ files' = write_file(files, audio_path, t.audio_bytes, j)
               /\ chapters' = update_chapter_audio_info(chapters, t.chapter_id,
                                 audio_path, t.total_duration, t.provider_name)
               /\ jobs' = update_job(jobs, j, Some("done"), Some(100), None)
               /\ task' = [task EXCEPT ![j].pc = "index",
                                       ![j].novel_id = chapter.row.novel_id,
                                       ![j].wrote = @ @@ (t.chapter_id :>
                                          AudioInfo(audio_path, t.total_duration,
                                                    t.provider_name))]
  /\ UNCHANGED novels

(* lines 189-191 and 233-235: the index is updated when the novel exists *)
TtsIndex(j, type) ==
  /\ IsTask(j, type, "index")
  /\ UNCHANGED <<reply, call>>
  /\ \E io \in IndexOutcomes :
       IF get_novel(novels, task[j].novel_id) = None
       THEN /\ io = "ok"
            /\ task' = [task EXCEPT ![j].pc = "returned"]
            /\ UNCHANGED jobs
       ELSE IF io = "ok"
       THEN /\ task' = [task EXCEPT ![j].pc = "returned"]
            /\ UNCHANGED jobs
       ELSE TtsExcept(j, io)
  /\ UNCHANGED <<novels, chapters, files>>

TtsChapterIndex(j) == TtsIndex(j, "tts_chapter")

TtsNovelStart(j) == TtsStart(j, "tts_novel")

(* a loop head without the test of line 208 *)
NextChapter(snapshot, from) ==
  IF from < Len(snapshot) THEN from + 1 ELSE 0

(* the loop head, lines 207-209: the first chapter after position from     *)
(* whose row, as read by get_chapters at line 203, has no audio_path       *)
NextWithoutAudio(snapshot, from) ==
  LET S == {i \in (from + 1)..Len(snapshot) : snapshot[i].row.audio_path = None}
  IN IF S = {} THEN 0 ELSE CHOOSE i \in S : \A k \in S : i <= k

(* lines 207-221: skip the chapters that have audio, load and chunk the    *)
(* next one, up to the await of its first synthesize; lines 224-230 when   *)
(* the text has no chunk                                                   *)
TtsNovelAdvance(j, t, from) ==
  LET snapshot == t.chapters
      i == NextWithoutAudio(snapshot, from)
  IN IF i = 0
     THEN /\ task' = [task EXCEPT ![j] = [t EXCEPT !.pc = "finish"]]
          /\ UNCHANGED <<jobs, chapters, files>>
     ELSE IF TextMissing(snapshot[i].row)
     THEN /\ jobs' = update_job(jobs, j, Some("error"), None,
                                Some("Missing text for chapter"))
          /\ task' = [task EXCEPT ![j] =
                        [t EXCEPT !.pc = "returned", !.idx = i,
                                  !.fault = "Missing text for chapter"]]
          /\ UNCHANGED <<chapters, files>>
     ELSE LET chunks == chunk_text(files[snapshot[i].row.text_path[1]].data)
              id == snapshot[i].id
              audio_path == AudioPath(t.novel_id, snapshot[i].idx)
              has_audio == id \in DOMAIN chapters /\ chapters[id].audio_path # None
          IN IF chunks = <<>>
             THEN /\ files' = write_file(files, audio_path, <<>>, j)
                  /\ chapters' = update_chapter_audio_info(chapters, id,
                                    audio_path, 0, t.provider_name)
                  /\ jobs' = update_job(jobs, j, None,
                                Some(Progress(i, Len(snapshot), TTS_SHARE)), None)
                  /\ task' = [task EXCEPT ![j] =
                                [t EXCEPT !.pc = "next", !.idx = i,
                                          !.wrote = @ @@ (id :>
                                             AudioInfo(audio_path, 0,
                                                       t.provider_name))]]
             ELSE /\ task' = [task EXCEPT ![j] =
                                [t EXCEPT !.pc = "synth", !.idx = i,
                                          !.chunks = chunks, !.cidx = 1,
                                          !.audio_bytes = <<>>,
                                          !.total_duration = 0,
                                          !.called = @ \cup {id},
                                          !.stale = IF has_audio
                                                    THEN @ \cup {id} ELSE @]]
                  /\ UNCHANGED <<jobs, chapters, files>>

(* lines 203-206, then the loop up to its first await *)
TtsNovelLoad(j) ==
  /\ IsTask(j, "tts_novel", "load")
  /\ UNCHANGED <<reply, call>>
  /\ \E snapshot \in {get_chapters(chapters, task[j].novel_id)} :
       IF snapshot = <<>>
       THEN /\ TtsExcept(j, "Novel has no chapters")
            /\ UNCHANGED <<chapters, files>>
       ELSE \E t \in {[task[j] EXCEPT
                         !.chapters = snapshot,
                         !.after = Returned,
                         !.textless = {i \in DOMAIN snapshot :
                                         TextMissing(snapshot[i].row)}]} :
              TtsNovelAdvance(j, t, 0)
  /\ UNCHANGED novels

(* lines 221-230: one synthesize call returns; after the last chunk of the *)
(* chapter the audio file and the chapter row are written and the job's    *)
(* progress is stored                                                      *)
TtsNovelSynth(j) ==
  /\ IsTask(j, "tts_novel", "synth")
  /\ UNCHANGED <<reply, call>>
  /\ \E out \in SynthOutcomes(task[j].provider_name),
        io \in {"ok", "file write raised"} :
       LET t == task[j]
           chunk == t.chunks[t.cidx]
           chapter == t.chapters[t.idx]
           total == Len(t.chapters)
           audio_bytes == concat_audio(t.audio_bytes,
                                       chunk_audio(t.provider_name, chunk))
           total_duration == t.total_duration + synth_seconds(chunk)
           audio_path == AudioPath(t.novel_id, chapter.idx)
       IN IF out # "ok"
          THEN /\ io = "ok"
               /\ TtsExcept(j, out)
               /\ UNCHANGED <<chapters, files>>
          ELSE IF t.cidx < Len(t.chunks)
          THEN /\ io = "ok"
               /\ task' = [task EXCEPT ![j].audio_bytes = audio_bytes,
                                       ![j].total_duration = total_duration,
                                       ![j].cidx = @ + 1]
               /\ UNCHANGED <<jobs, chapters, files>>
          ELSE IF io # "ok"
          THEN /\ TtsExcept(j, io)
               /\ UNCHANGED <<chapters, files>>
          ELSE /\ files' = write_file(files, audio_path, audio_bytes, j)
               /\ chapters' = update_chapter_audio_info(chapters, chapter.id,
                                 audio_path, total_duration, t.provider_name)
               /\ jobs' = update_job(jobs, j, None,
                             Some(Progress(t.idx, total, TTS_SHARE)), None)
               /\ task' = [task EXCEPT ![j].audio_bytes = audio_bytes,
                                       ![j].total_duration = total_duration,
                                       ![j].pc = "next",
                                       ![j].wrote = @ @@ (chapter.id :>
                                          AudioInfo(audio_path, total_duration,
                                                    t.provider_name))]
  /\ UNCHANGED novels

(* the next iteration of the loop of line 207 *)
TtsNovelNext(j) ==
  /\ IsTask(j, "tts_novel", "next")
  /\ UNCHANGED <<reply, call>>
  /\ TtsNovelAdvance(j, task[j], task[j].idx)
  /\ UNCHANGED novels

(* line 232 *)
TtsNovelFinish(j) ==
  /\ IsTask(j, "tts_novel", "finish")
  /\ UNCHANGED <<reply, call>>
  /\ jobs' = update_job(jobs, j, Some("done"), Some(100), None)
  /\ task' = [task EXCEPT ![j].pc = "index"]
  /\ UNCHANGED <<novels, chapters, files>>

TtsNovelIndex(j) == TtsIndex(j, "tts_novel")

----------------------------------------------------------------------------
(* The service: requests arrive at any time, tasks interleave at their     *)
(* suspension points                                                       *)

(* ids a client can have learnt from earlier responses, and one unknown id *)
KnownNovelIds == {j \in DOMAIN jobs : jobs[j].type = "extract"} \cup {0}
KnownChapterIds == DOMAIN chapters \cup {NoChapter}

ExtractStep(j) ==
  \/ ExtractStart(j)
  \/ ExtractDiscovered(j)
  \/ ExtractChapterDone(j)
  \/ ExtractFinalize(j)
  \/ ExtractIndex(j)

TtsChapterStep(j) ==
  \/ TtsChapterStart(j)
  \/ TtsChapterLoad(j)
  \/ TtsChapterSynth(j)
  \/ TtsChapterSave(j)
  \/ TtsChapterIndex(j)

TtsNovelStep(j) ==
  \/ TtsNovelStart(j)
  \/ TtsNovelLoad(j)
  \/ TtsNovelSynth(j)
  \/ TtsNovelNext(j)
  \/ TtsNovelFinish(j)
  \/ TtsNovelIndex(j)

(* Requests are admitted while fewer than MaxJobs jobs exist *)
Next ==
  \/ \E url \in TocUrls : Len(jobs) < MaxJobs /\ novel_endpoint(url)
  \/ \E c \in KnownChapterIds, p \in ProviderNames :
       Len(jobs) < MaxJobs /\ tts_chapter_endpoint(c, p)
  \/ \E n \in KnownNovelIds, p \in ProviderNames :
       Len(jobs) < MaxJobs /\ tts_novel_endpoint(n, p)
  \/ \E j \in JobIds : ExtractStep(j)
  \/ \E j \in JobIds : TtsChapterStep(j)
  \/ \E j \in JobIds : TtsNovelStep(j)

Spec == Init /\ [][Next]_vars

(* The event loop does not idle while a task can continue: an await of    *)
(* some task returns, with a result or an exception, and that task goes on *)
(* to its next suspension point.  Requests carry no such obligation.       *)
TaskStep ==
  \E j \in JobIds : ExtractStep(j) \/ TtsChapterStep(j) \/ TtsNovelStep(j)

Fairness == WF_vars(TaskStep)

SpecFair == Spec /\ Fairness

----------------------------------------------------------------------------
(* Synthesis on an extracted novel: the service after job 1 has extracted  *)
(* novel 1 from the table of contents t1, whose links are c1 and c2, and   *)
(* MaxSynthJobs synthesis requests.                                        *)

ExtractedNovel ==
  /\ novels = (1 :> [source_url |-> "t1", num_chapters |-> Some(2),
                     status |-> "ready"])
  /\ chapters =
       (ChapterId(1, 1) :>
          [novel_id |-> 1, idx |-> 1, source_url |-> "c1",
           text_path |-> Some(TextPath(1, 1)), audio_path |-> None,
           duration_seconds |-> None, tts_provider |-> None,
           status |-> "ready"])
       @@ (ChapterId(1, 2) :>
          [novel_id |-> 1, idx |-> 2, source_url |-> "c2",
           text_path |-> Some(TextPath(1, 2)), audio_path |-> None,
           duration_seconds |-> None, tts_provider |-> None,
           status |-> "ready"])
  /\ jobs = <<[type |-> "extract", novel_id |-> Some(1), status |-> "done",
               progress |-> 100, error |-> None]>>
  /\ files = (TextPath(1, 1) :> [data |-> Web("c1"), by |-> 1])
             @@ (TextPath(1, 2) :> [data |-> Web("c2"), by |-> 1])
             @@ (TxtPackagePath(1) :> [data |-> <<Web("c1"), Web("c2")>>, by |-> 1])
             @@ (EpubPackagePath(1) :> [data |-> <<Web("c1"), Web("c2")>>, by |-> 1])
  /\ task = <<[NewTask(1, "t1", NoChapter, "") EXCEPT
                 !.pc = "returned", !.chapter_urls = <<"c1", "c2">>,
                 !.idx = 2, !.chapters_data = <<Web("c1"), Web("c2")>>]>>
  /\ reply = Accepted(1)
  /\ call = None

SynthInit == ExtractedNovel

NextSynth ==
  \/ \E c \in KnownChapterIds, p \in ProviderNames :
       Len(jobs) < 1 + MaxSynthJobs /\ tts_chapter_endpoint(c, p)
  \/ \E n \in KnownNovelIds, p \in ProviderNames :
       Len(jobs) < 1 + MaxSynthJobs /\ tts_novel_endpoint(n, p)
  \/ \E j \in JobIds : TtsChapterStep(j)
  \/ \E j \in JobIds : TtsNovelStep(j)

SpecSynth == SynthInit /\ [][NextSynth]_vars

(* ExtractedNovel is a state of Spec *)
NotExtractedNovel == ~ExtractedNovel

----------------------------------------------------------------------------
(* Synthesis on an extracted novel whose text files can disappear from     *)
(* BASE_DIR (main.py line 42, a directory outside the service's control):  *)
(* the case os.path.exists tests at lines 164 and 211.                     *)

TextFiles == {p \in DOMAIN files : p[1] = "chapter.txt"}

remove_file(fs, path) == [p \in DOMAIN fs \ {path} |-> fs[p]]

TextFileLost(path) ==
  /\ path \in TextFiles
  /\ files' = remove_file(files, path)
  /\ UNCHANGED <<novels, chapters, jobs, task, reply, call>>

NextLost ==
  \/ NextSynth
  \/ \E path \in TextFiles : TextFileLost(path)

SpecLost == SynthInit /\ [][NextLost]_vars

----------------------------------------------------------------------------
(* extractor.py: one call of fetch_html, cut at its awaits (client.get and *)
(* asyncio.sleep).  The service is idle.                                   *)

NoService ==
  /\ novels = <<>>
  /\ chapters = <<>>
  /\ jobs = <<>>
  /\ files = <<>>
  /\ task = <<>>
  /\ reply = None

(* 2 ** attempt *)
RECURSIVE Pow2(_)
Pow2(k) == IF k = 0 THEN 1 ELSE 2 * Pow2(k - 1)

Bodies == {"", "<html>"}

(* what one client.get can do: answer 200 with a body, answer another      *)
(* status, or raise (network error, timeout, malformed response)           *)
GetOutcomes ==
  {[status |-> "200", text |-> b] : b \in Bodies}
    \cup {[status |-> "503", text |-> ""], [status |-> "raised", text |-> ""]}

(* an attempt without the except clause of lines 63-64 *)
after_get_uncaught(outcome) ==
  IF outcome.status = "200" THEN "return"
  ELSE IF outcome.status = "raised" THEN "raise" ELSE "sleep"

(* lines 58-64: a 200 response returns; any other response falls through   *)
(* to the sleep, and so does an exception, which is swallowed              *)
after_get(outcome) ==
  IF outcome.status = "200" THEN "return" ELSE "sleep"

(* the call fetch_html(url, max_retries, backoff) at the head of its loop; *)
(* range(0) is empty, so the call returns None at once. log holds the      *)
(* outcomes of the attempts made and sleeps the delays slept (history).    *)
FetchInit ==
  /\ NoService
  /\ call \in {[op |-> "fetch_html", max_retries |-> m, backoff |-> b,
                 attempt |-> 0,
                 pc |-> IF m = 0 THEN "returned" ELSE "get",
                 result |-> None, log |-> <<>>, sleeps |-> <<>>] :
                m \in 0..MaxRetries, b \in 1..MaxBackoff}

(* lines 59-64: the get of the current attempt ends *)
FetchGet ==
  /\ call.pc = "get"
  /\ \E outcome \in GetOutcomes :
       LET then == after_get(outcome)
       IN call' = [call EXCEPT
            !.log = Append(@, outcome),
            !.pc = IF then = "return" THEN "returned"
                   ELSE IF then = "raise" THEN "raised" ELSE "sleep",
            !.result = IF then = "return" THEN Some(outcome.text) ELSE @]
  /\ UNCHANGED service

(* line 65, then the next iteration or line 66 *)
FetchSleep ==
  /\ call.pc = "sleep"
  /\ call' = [call EXCEPT
       !.sleeps = Append(@, call.backoff * Pow2(call.attempt)),
       !.attempt = @ + 1,
       !.pc = IF call.attempt + 1 < call.max_retries THEN "get" ELSE "returned"]
  /\ UNCHANGED service

NextFetch == FetchGet \/ FetchSleep

SpecFetch == FetchInit /\ [][NextFetch]_vars

----------------------------------------------------------------------------
(* extractor.py: one call of discover_chapter_urls on a fetched page, one  *)
(* step for each anchor of the loop of lines 160-168.                      *)

(* the table-of-contents URL and what an href resolves to against it *)
TocUrl == "http://site/toc"

AnchorTexts == {"Chapter 1", "CHAPTER 2", "Next"}
AnchorHrefs == {"", "/c1", "c1", "/chapter-2"}

(* re.search(r"chapter", s, re.IGNORECASE) on the strings above *)
re_search_chapter(s) == s \in {"Chapter 1", "CHAPTER 2", "/chapter-2"}

(* the absolute URL of href against TocUrl *)
absolute_url(href) ==
  IF href = "" THEN TocUrl
  ELSE IF href \in {"/c1", "c1"} THEN "http://site/c1"
  ELSE "http://site/chapter-2"

(* line 166, httpx.URL(href, base=toc_url).resolve().human_repr(): the     *)
(* URL class of the installed httpx decides whether this yields the        *)
(* absolute URL or raises (TypeError for a keyword the class does not      *)
(* take, AttributeError for a method it does not have)                     *)
ResolveOutcomes == {"resolved", "raised"}

Anchors == [text : AnchorTexts, href : AnchorHrefs]
AnchorPages == UNION {[1..n -> Anchors] : n \in 0..MaxAnchors}

(* soup.find_all("a", href=True) has returned the anchors of the page *)
DiscoverInit ==
  /\ NoService
  /\ call \in {[op |-> "discover_chapter_urls", page |-> pg, i |-> 1,
                 links |-> <<>>, pc |-> "scan", result |-> None] :
                pg \in AnchorPages}

(* lines 160-168 for the anchor at position i *)
DiscoverAnchor ==
  /\ call.pc = "scan"
  /\ call.i <= Len(call.page)
  /\ \E out \in ResolveOutcomes :
       LET a == call.page[call.i]
           text == a.text
           href == a.href
           full_url == absolute_url(href)
       IN IF href = ""
          THEN /\ out = "resolved"
               /\ call' = [call EXCEPT !.i = @ + 1]
          ELSE IF out = "raised"
          THEN call' = [call EXCEPT !.pc = "raised"]
          ELSE IF re_search_chapter(text) \/ re_search_chapter(href)
          THEN call' = [call EXCEPT !.i = @ + 1,
                                    !.links = Append(@, full_url)]
          ELSE call' = [call EXCEPT !.i = @ + 1]
  /\ UNCHANGED service

(* lines 169-176 *)
DiscoverReturn ==
  /\ call.pc = "scan"
  /\ call.i > Len(call.page)
  /\ call' = [call EXCEPT !.pc = "returned",
                          !.result = Some(UniqueLinks(call.links, {}))]
  /\ UNCHANGED service

NextDiscover == DiscoverAnchor \/ DiscoverReturn

SpecDiscover == DiscoverInit /\ [][NextDiscover]_vars

----------------------------------------------------------------------------
(* extractor.py: package_epub and package_txt by themselves.  A string is  *)
(* a sequence of characters; a markup entity counts as one character.      *)

Whitespace == {" ", "\n"}

(* str.strip() *)
RECURSIVE lstrip(_)
lstrip(str) ==
  IF str # <<>> /\ Head(str) \in Whitespace THEN lstrip(Tail(str)) ELSE str

RECURSIVE rstrip(_)
rstrip(str) ==
  IF str # <<>> /\ str[Len(str)] \in Whitespace
  THEN rstrip(SubSeq(str, 1, Len(str) - 1)) ELSE str

(* a strip that trims the left end only *)
strip_left_only(str) == lstrip(str)

strip(str) == rstrip(lstrip(str))

(* str.split("\n") *)
RECURSIVE split_lines(_, _)
split_lines(str, current) ==
  IF str = <<>> THEN <<current>>
  ELSE IF Head(str) = "\n" THEN <<current>> \o split_lines(Tail(str), <<>>)
  ELSE split_lines(Tail(str), Append(current, Head(str)))

(* html.escape *)
RECURSIVE html_escape(_)
html_escape(str) ==
  IF str = <<>> THEN <<>>
  ELSE <<(IF Head(str) = "&" THEN "&amp;" ELSE Head(str))>>
       \o html_escape(Tail(str))

(* line 225: the escaped, stripped, non-empty lines of the text *)
RECURSIVE paragraphs_of(_)
paragraphs_of(lines) ==
  IF lines = <<>> THEN <<>>
  ELSE (IF strip(Head(lines)) # <<>>
        THEN <<html_escape(strip(Head(lines)))>> ELSE <<>>)
       \o paragraphs_of(Tail(lines))

(* the chapter dicts handed to the packagers *)
ChapterTitles == {<<"A">>, <<" ", "B", "&", " ">>}
ChapterTexts == {<<"p", "\n", "\n", "q">>, <<" ", "r", "\n">>}
ChapterDicts == [title : ChapterTitles, text : ChapterTexts]
ChapterLists == UNION {[1..n -> ChapterDicts] : n \in 0..MaxChapters}

(* names inside the archive, lines 239-245 and 264 *)
ChapId(idx) == <<"chap", idx>>
ChapterFile(idx) == <<"Text/chapter.xhtml", idx>>
NcxItem == [id |-> <<"ncx", 0>>, href |-> <<"toc.ncx", 0>>]

(* a navigation point that counts positions from 0 *)
nav_point_from_zero(idx, chap_title) ==
  [id |-> <<"navPoint", idx>>, playOrder |-> idx - 1, label |-> chap_title,
   src |-> ChapterFile(idx)]

(* lines 243-250 *)
nav_point(idx, chap_title) ==
  [id |-> <<"navPoint", idx>>, playOrder |-> idx, label |-> chap_title,
   src |-> ChapterFile(idx)]

EpubInit ==
  /\ NoService
  /\ call \in {[op |-> "package_epub", novel_id |-> 1, chapters |-> cs,
                 idx |-> 0, pc |-> "validate", xhtml_files |-> <<>>,
                 manifest_items |-> <<>>, spine_items |-> <<>>,
                 ncx_navpoints |-> <<>>] : cs \in ChapterLists}

(* package_epub, lines 314-319 *)
EpubValidate ==
  /\ call.pc = "validate"
  /\ call' = [call EXCEPT
       !.pc = IF call.chapters = <<>> THEN "raised" ELSE "template",
       !.idx = 1]
  /\ UNCHANGED service

(* _epub_template, lines 220-250: one iteration of the loop *)
EpubChapter ==
  /\ call.pc = "template"
  /\ call.idx <= Len(call.chapters)
  /\ LET idx == call.idx
         chapter == call.chapters[idx]
         chap_title == html_escape(chapter.title)
         paragraphs == paragraphs_of(split_lines(chapter.text, <<>>))
         file_name == ChapterFile(idx)
     IN call' = [call EXCEPT
          !.xhtml_files = (file_name :> [title |-> chap_title,
                                         paragraphs |-> paragraphs]) @@ @,
          !.manifest_items = Append(@, [id |-> ChapId(idx), href |-> file_name]),
          !.spine_items = Append(@, [idref |-> ChapId(idx)]),
          !.ncx_navpoints = Append(@, nav_point(idx, chap_title)),
          !.idx = @ + 1]
  /\ UNCHANGED service

(* _epub_template, lines 252-303, and package_epub, lines 320-328 *)
EpubWrite ==
  /\ call.pc = "template"
  /\ call.idx > Len(call.chapters)
  /\ files' = write_file(files, EpubPackagePath(call.novel_id),
                 [entries |-> <<"mimetype", "content.opf", "toc.ncx",
                                "META-INF/container.xml">>,
                  manifest |-> <<NcxItem>> \o call.manifest_items,
                  spine |-> call.spine_items,
                  navMap |-> call.ncx_navpoints,
                  xhtml |-> call.xhtml_files], 0)
  /\ call' = [call EXCEPT !.pc = "returned"]
  /\ UNCHANGED <<novels, chapters, jobs, task, reply>>

NextEpub == EpubValidate \/ EpubChapter \/ EpubWrite

SpecEpub == EpubInit /\ [][NextEpub]_vars

(* an open that keeps what the file holds *)
open_append(fs, path) ==
  IF path \in DOMAIN fs THEN fs ELSE write_file(fs, path, <<>>, 0)

(* open(path, "w"), line 189: the file is created or truncated *)
open_write(fs, path) == write_file(fs, path, <<>>, 0)

(* f.write(str) *)
append_file(fs, path, str) == [fs EXCEPT ![path].data = @ \o str]

(* package_txt(novel_id, chapters, dest_dir); run counts the calls made    *)
(* with these arguments and first keeps what the first call left in the    *)
(* file (history)                                                          *)
TxtInit ==
  /\ NoService
  /\ call \in {[op |-> "package_txt", novel_id |-> 1, chapters |-> cs,
                 i |-> 1, pc |-> "open", run |-> 1, first |-> None] :
                cs \in ChapterLists}

(* lines 187-189 *)
TxtOpen ==
  /\ call.pc = "open"
  /\ files' = open_write(files, TxtPackagePath(call.novel_id))
  /\ call' = [call EXCEPT !.pc = "write", !.i = 1]
  /\ UNCHANGED <<novels, chapters, jobs, task, reply>>

(* lines 190-194: one iteration of the loop *)
TxtChapter ==
  /\ call.pc = "write"
  /\ call.i <= Len(call.chapters)
  /\ LET chapter == call.chapters[call.i]
         title == strip(chapter.title)
         text == strip(chapter.text)
         path == TxtPackagePath(call.novel_id)
     IN files' = append_file(append_file(files, path, title \o <<"\n", "\n">>),
                             path, text \o <<"\n", "\n", "\n">>)
  /\ call' = [call EXCEPT !.i = @ + 1]
  /\ UNCHANGED <<novels, chapters, jobs, task, reply>>

(* line 195 *)
TxtReturn ==
  /\ call.pc = "write"
  /\ call.i > Len(call.chapters)
  /\ call' = [call EXCEPT !.pc = "returned"]
  /\ UNCHANGED service

(* the caller calls package_txt again with the same arguments *)
TxtAgain ==
  /\ call.pc = "returned"
  /\ call.run = 1
  /\ call' = [call EXCEPT
       !.run = 2, !.pc = "open",
       !.first = Some(files[TxtPackagePath(call.novel_id)].data)]
  /\ UNCHANGED service

NextTxt == TxtOpen \/ TxtChapter \/ TxtReturn \/ TxtAgain

SpecTxt == TxtInit /\ [][NextTxt]_vars

----------------------------------------------------------------------------
(* tts.py: one call of chunk_text(text, max_chars), one step for each      *)
(* sentence of the loop of lines 93-101.  The text is its lines, a line    *)
(* the lengths of the sentences re.split finds in it; a line without       *)
(* sentences is empty or whitespace.  A sentence of the list carries the   *)
(* line and the position it comes from.                                    *)

SentenceLens == {1, 5}
TextLines == UNION {[1..n -> SentenceLens] : n \in 0..MaxSentences}
ChunkTexts == UNION {[1..n -> TextLines] : n \in 0..MaxParagraphs}

(* lines 84-90: the sentences of the lines from line number par on *)
RECURSIVE sentences_of(_, _)
sentences_of(lines, par) ==
  IF lines = <<>> THEN <<>>
  ELSE [k \in DOMAIN Head(lines) |->
          [par |-> par, pos |-> k, len |-> Head(lines)[k]]]
       \o sentences_of(Tail(lines), par + 1)

(* len(" ".join(buf)) *)
chunk_len(buf) == JoinLen([k \in DOMAIN buf |-> buf[k].len])

(* a flush that starts the next buffer empty *)
buffer_after_flush_empty(sentence) == <<>>

(* line 97 *)
buffer_after_flush(sentence) == <<sentence>>

ChunkInit ==
  /\ NoService
  /\ call \in {[op |-> "chunk_text", text |-> t, max_chars |-> m,
                 sentences |-> sentences_of(t, 1), i |-> 1, buf |-> <<>>,
                 current_len |-> 0, chunks |-> <<>>, pc |-> "loop"] :
                t \in ChunkTexts, m \in 0..MaxChunkChars}

(* lines 93-101 *)
ChunkSentence ==
  /\ call.pc = "loop"
  /\ call.i <= Len(call.sentences)
  /\ LET sentence == call.sentences[call.i]
         sent_len == sentence.len
     IN IF call.current_len + sent_len + 1 > call.max_chars /\ call.buf # <<>>
        THEN call' = [call EXCEPT !.chunks = Append(@, call.buf),
                                  !.buf = buffer_after_flush(sentence),
                                  !.current_len = sent_len,
                                  !.i = @ + 1]
        ELSE call' = [call EXCEPT !.buf = Append(@, sentence),
                                  !.current_len = @ + sent_len + 1,
                                  !.i = @ + 1]
  /\ UNCHANGED service

(* lines 102-104 *)
ChunkReturn ==
  /\ call.pc = "loop"
  /\ call.i > Len(call.sentences)
  /\ call' = [call EXCEPT
       !.chunks = IF call.buf # <<>> THEN Append(@, call.buf) ELSE @,
       !.pc = "returned"]
  /\ UNCHANGED service

NextChunk == ChunkSentence \/ ChunkReturn

SpecChunk == ChunkInit /\ [][NextChunk]_vars

----------------------------------------------------------------------------
(* extractor.py: the body text of _extract_title_and_content(soup).  The   *)
(* document is the containers the lookups of lines 88-99 can find, each    *)
(* with the texts of its p, br, div and span descendants, and the texts of *)
(* all the p elements of the page.  content_text is kept as the list of    *)
(* the fragments that "\n\n".join puts together; the empty list is "".     *)

TagIds == <<"chapter", "chapter-content", "content", "chapterContent", "text">>
ClassNames == <<"chapter-content", "entry-content", "post-content", "content">>

Containers ==
  {<<"id", TagIds[k]>> : k \in DOMAIN TagIds}
    \cup {<<"class", ClassNames[k]>> : k \in DOMAIN ClassNames}
    \cup {<<"tag", "article">>}

(* the texts of the descendants of a container: none, one without text,   *)
(* or one without text and one with the text of this container             *)
DescendantTexts(container) ==
  {<<>>, <<"">>, <<"", container[1] \o ":" \o container[2]>>}

PageParagraphs == {<<>>, <<"">>, <<"", "p">>}

Soups ==
  UNION {{soup \in [found -> UNION {DescendantTexts(c) : c \in found}] :
            \A c \in found : soup[c] \in DescendantTexts(c)} :
         found \in {f \in SUBSET Containers : Cardinality(f) <= MaxContainers}}

(* lines 103-107 and 113: the texts that are not empty *)
non_empty_texts(texts) == SelectSeq(texts, LAMBDA text : text # "")

(* a loop over the candidates that goes on after a candidate with text *)
after_candidate_no_break(texts) == "candidates"

(* lines 108-110: break at the first candidate with text *)
after_candidate(texts) == IF texts # <<>> THEN "fallback" ELSE "candidates"

BodyInit ==
  /\ NoService
  /\ call \in {[op |-> "_extract_title_and_content", soup |-> soup,
                 paragraphs |-> paragraphs, pc |-> "ids", k |-> 1,
                 candidates |-> <<>>, content_text |-> <<>>] :
                soup \in Soups, paragraphs \in PageParagraphs}

(* soup.find(...) of a container, and the append of lines 90-91 *)
with_found(candidates, soup, container) ==
  IF container \in DOMAIN soup THEN Append(candidates, container)
  ELSE candidates

(* lines 88-91 *)
BodyFindId ==
  /\ call.pc = "ids"
  /\ call' = [call EXCEPT
       !.candidates = with_found(@, call.soup, <<"id", TagIds[call.k]>>),
       !.k = IF call.k = Len(TagIds) THEN 1 ELSE @ + 1,
       !.pc = IF call.k = Len(TagIds) THEN "classes" ELSE @]
  /\ UNCHANGED service

(* lines 92-95 *)
BodyFindClass ==
  /\ call.pc = "classes"
  /\ call' = [call EXCEPT
       !.candidates = with_found(@, call.soup, <<"class", ClassNames[call.k]>>),
       !.k = IF call.k = Len(ClassNames) THEN 1 ELSE @ + 1,
       !.pc = IF call.k = Len(ClassNames) THEN "article" ELSE @]
  /\ UNCHANGED service

(* lines 96-101 *)
BodyFindArticle ==
  /\ call.pc = "article"
  /\ call' = [call EXCEPT
       !.candidates = with_found(@, call.soup, <<"tag", "article">>),
       !.k = 1,
       !.pc = "candidates"]
  /\ UNCHANGED service

(* lines 102-110: one candidate of the loop *)
BodyCandidate ==
  /\ call.pc = "candidates"
  /\ call.k <= Len(call.candidates)
  /\ LET texts == non_empty_texts(call.soup[call.candidates[call.k]])
     IN call' = [call EXCEPT
          !.content_text = IF texts # <<>> THEN texts ELSE @,
          !.k = @ + 1,
          !.pc = after_candidate(texts)]
  /\ UNCHANGED service

(* line 102: the loop is over *)
BodyCandidatesDone ==
  /\ call.pc = "candidates"
  /\ call.k > Len(call.candidates)
  /\ call' = [call EXCEPT !.pc = "fallback"]
  /\ UNCHANGED service

(* lines 111-116 *)
BodyFallback ==
  /\ call.pc = "fallback"
  /\ call' = [call EXCEPT
       !.content_text = IF @ = <<>> THEN non_empty_texts(call.paragraphs) ELSE @,
       !.pc = "returned"]
  /\ UNCHANGED service

NextBody ==
  \/ BodyFindId
  \/ BodyFindClass
  \/ BodyFindArticle
  \/ BodyCandidate
  \/ BodyCandidatesDone
  \/ BodyFallback

SpecBody == BodyInit /\ [][NextBody]_vars

----------------------------------------------------------------------------
(* db.py: calls of insert_novel on the novels table by themselves.  call   *)
(* holds the arguments of the last call and whether it raised.             *)

NovelIds == 1..MaxNovels
NovelRecords ==
  [source_url : TocUrls, num_chapters : {None, Some(2)},
   status : {"extracting", "ready"}]

StoreInit ==
  /\ NoService
  /\ call = [op |-> "insert_novel", id |-> 0, novel |-> None, raised |-> FALSE]

(* lines 110-149; when the UPDATE of line 143 raises nothing is committed *)
StoreInsertNovel(id, r) ==
  /\ novels' = IF insert_novel_raises(novels, id, r) THEN novels
               ELSE insert_novel(novels, id, r)
  /\ call' = [op |-> "insert_novel", id |-> id, novel |-> Some(r),
              raised |-> insert_novel_raises(novels, id, r)]
  /\ UNCHANGED <<chapters, jobs, files, task, reply>>

NextStore == \E id \in NovelIds, r \in NovelRecords : StoreInsertNovel(id, r)

SpecStore == StoreInit /\ [][NextStore]_vars

----------------------------------------------------------------------------
(* search.py: one call of search_novels(query_str, audio_available) over a *)
(* fixed catalogue.  The rows are in the order of db.list_novels; a title  *)
(* is the set of its words, none of which is part of another, so that      *)
(* "kw in text" is membership; has_audio is what lines 132-133 compute     *)
(* from the chapters of the novel.  A query is its list of keywords.       *)

Catalogue ==
  << [id |-> 2, title |-> {"moon"}, has_audio |-> FALSE],
     [id |-> 1, title |-> {"red", "moon"}, has_audio |-> TRUE],
     [id |-> 3, title |-> {"sun"}, has_audio |-> TRUE] >>

Queries == {<<>>, <<"moon">>, <<"red", "moon">>, <<"sea">>}
AudioFilters == {None, Some(TRUE), Some(FALSE)}
TITLE_WEIGHT == 4
RESULT_LIMIT == 20

(* lines 136-154: the score of one novel *)
score_of(novel, keywords) ==
  TITLE_WEIGHT * Cardinality({k \in DOMAIN keywords : keywords[k] \in novel.title})

(* line 158: sort by score descending, then by id *)
RECURSIVE sort_scores(_)
sort_scores(scores) ==
  IF scores = {} THEN <<>>
  ELSE LET first == CHOOSE t \in scores : \A o \in scores :
                      \/ t[2] > o[2]
                      \/ (t[2] = o[2] /\ t[1] <= o[1])
       IN <<first[1]>> \o sort_scores(scores \ {first})

(* _search_naive, lines 114-159 *)
search_naive(keywords, audio_available) ==
  IF keywords = <<>> THEN [i \in DOMAIN Catalogue |-> Catalogue[i].id]
  ELSE LET kept == {i \in DOMAIN Catalogue :
                      /\ audio_available # None
                           => Catalogue[i].has_audio = audio_available[1]
                      /\ score_of(Catalogue[i], keywords) > 0}
           sorted == sort_scores({<<Catalogue[i].id, score_of(Catalogue[i], keywords)>> :
                                    i \in kept})
       IN SubSeq(sorted, 1, IF Len(sorted) < RESULT_LIMIT THEN Len(sorted)
                            ELSE RESULT_LIMIT)

(* what _search_whoosh can do: return the ids of its hits or raise *)
WhooshOutcomes == {Some(<<>>), Some(<<1>>), None}

SearchInit ==
  /\ NoService
  /\ call \in {[op |-> "search_novels", query |-> q, audio_available |-> f,
                 whoosh_available |-> w, writelock |-> l, index_exists |-> x,
                 pc |-> "condition", tried_whoosh |-> FALSE,
                 whoosh_failed |-> FALSE, result |-> None, raised |-> ""] :
                q \in Queries, f \in AudioFilters, w \in BOOLEAN,
                l \in BOOLEAN, x \in BOOLEAN}

(* line 168: (_WHOOSH_AVAILABLE and (INDEX_DIR / "MAIN_WRITELOCK").exists()) *)
(* or whoosh_index.exists_in(INDEX_DIR); the name whoosh_index is bound    *)
(* only when the import of lines 25-28 succeeded                           *)
SearchCondition ==
  /\ call.pc = "condition"
  /\ IF call.whoosh_available /\ call.writelock
     THEN call' = [call EXCEPT !.pc = "whoosh"]
     ELSE IF ~call.whoosh_available
     THEN call' = [call EXCEPT !.pc = "raised",
                               !.raised = "name 'whoosh_index' is not defined"]
     ELSE call' = [call EXCEPT !.pc = IF call.index_exists THEN "whoosh"
                                      ELSE "naive"]
  /\ UNCHANGED service

(* lines 169-173 *)
SearchWhoosh ==
  /\ call.pc = "whoosh"
  /\ \E out \in WhooshOutcomes :
       IF out = None
       THEN call' = [call EXCEPT !.pc = "naive", !.tried_whoosh = TRUE,
                                 !.whoosh_failed = TRUE]
       ELSE call' = [call EXCEPT !.pc = "returned", !.tried_whoosh = TRUE,
                                 !.result = out]
  /\ UNCHANGED service

(* line 174 *)
SearchNaive ==
  /\ call.pc = "naive"
  /\ call' = [call EXCEPT
       !.pc = "returned",
       !.result = Some(search_naive(call.query, call.audio_available))]
  /\ UNCHANGED service

NextSearch == SearchCondition \/ SearchWhoosh \/ SearchNaive

SpecSearch == SearchInit /\ [][NextSearch]_vars

----------------------------------------------------------------------------
(* main.py: the status and progress that one background task stores in    *)
(* its job row, for a task with total items (chapter URLs, chunks of the   *)
(* chapter, chapters of the novel), by itself.  idx counts the items the   *)
(* loop has passed.                                                        *)

JobTypes == {"extract", "tts_chapter", "tts_novel"}

(* the share of the loop: lines 121, 175 and 229 *)
share_of(type) == IF type = "extract" THEN EXTRACT_SHARE ELSE TTS_SHARE

(* len(chapter_urls) and len(chapters) are at least 1 (lines 87-88 and     *)
(* 204-205); a chapter text can have no chunk                              *)
Totals(type) == IF type = "tts_chapter" THEN 0..MaxTotal ELSE 1..MaxTotal

ProgressInit ==
  /\ NoService
  /\ \E type \in JobTypes, total \in 0..MaxTotal :
       /\ total \in Totals(type)
       /\ call = [op |-> type, total |-> total, idx |-> 0, pc |-> "queued",
                  status |-> "queued", progress |-> 0]

(* lines 84, 157 and 202 *)
ProgressStart ==
  /\ call.pc = "queued"
  /\ call' = [call EXCEPT !.pc = IF call.total = 0 THEN "finish" ELSE "loop",
                          !.status = "running", !.progress = 0]
  /\ UNCHANGED service

(* lines 120-122, 174-176 and 228-230: the item is done and the progress   *)
(* stored; line 208: a chapter that has audio is passed without a write    *)
ProgressItem ==
  /\ call.pc = "loop"
  /\ \E skipped \in {b \in BOOLEAN : b => call.op = "tts_novel"} :
       LET idx == call.idx + 1
       IN call' = [call EXCEPT
            !.idx = idx,
            !.progress = IF skipped THEN @
                         ELSE Progress(idx, call.total, share_of(call.op)),
            !.pc = IF idx = call.total THEN "finish" ELSE "loop"]
  /\ UNCHANGED service

(* lines 93-97 and the except clauses of lines 146-147, 192-193, 236-237:  *)
(* the status becomes error, the progress is not written                   *)
ProgressFail ==
  /\ call.pc \in {"queued", "loop", "finish", "index"}
  /\ call' = [call EXCEPT !.pc = "returned", !.status = "error"]
  /\ UNCHANGED service

(* lines 143, 187 and 232 *)
ProgressDone ==
  /\ call.pc = "finish"
  /\ call' = [call EXCEPT !.pc = "index", !.status = "done", !.progress = 100]
  /\ UNCHANGED service

(* lines 145, 189-191 and 233-235: the index update returned *)
ProgressReturn ==
  /\ call.pc = "index"
  /\ call' = [call EXCEPT !.pc = "returned"]
  /\ UNCHANGED service

NextProgress ==
  \/ ProgressStart
  \/ ProgressItem
  \/ ProgressFail
  \/ ProgressDone
  \/ ProgressReturn

SpecProgress == ProgressInit /\ [][NextProgress]_vars

----------------------------------------------------------------------------
(* Properties of the job state machine *)

Terminal == {"done", "error"}

JobFrozen(j) ==
  jobs[j].status \in Terminal =>
    /\ jobs'[j].status = jobs[j].status
    /\ jobs'[j].progress = jobs[j].progress
    /\ jobs'[j].error = jobs[j].error

(* C1: in every step, no job's stored progress decreases, and a job whose  *)
(* stored status is done or error keeps its status, progress and error.    *)
C1_ProgressMonotoneAndFrozen ==
  [][\A j \in DOMAIN jobs :
       /\ jobs'[j].progress >= jobs[j].progress
       /\ JobFrozen(j)]_vars

StatusSteps ==
  {<<"queued", "running">>, <<"running", "done">>, <<"running", "error">>}

(* C2: a job row appears with status queued and progress 0 while its task  *)
(* has not started, and every later change of its status is one of         *)
(* queued->running, running->done, running->error.                         *)
C2_StatusSteps ==
  [][/\ \A j \in DOMAIN jobs' \ DOMAIN jobs :
          /\ jobs'[j].status = "queued"
          /\ jobs'[j].progress = 0
          /\ task'[j].pc = "queued"
     /\ \A j \in DOMAIN jobs :
          jobs'[j].status # jobs[j].status =>
            <<jobs[j].status, jobs'[j].status>> \in StatusSteps]_vars

(* C3: a job whose index update raised after its primary work keeps status *)
(* done and progress 100, and the novel of an extraction job stays ready.  *)
C3_IndexFailureDoesNotMask ==
  \A j \in DOMAIN jobs :
    task[j].fault = "index update raised" =>
      /\ jobs[j].status = "done"
      /\ jobs[j].progress = 100
      /\ jobs[j].type = "extract" =>
           /\ task[j].novel_id \in DOMAIN novels
           /\ novels[task[j].novel_id].status = "ready"

----------------------------------------------------------------------------
(* Properties of extraction jobs *)

ChapterRowsOf(n) == {id \in DOMAIN chapters : chapters[id].novel_id = n}

(* the novel's chapter rows are exactly one row for each index of 1..k *)
HasChapters(n, k) ==
  /\ Cardinality(ChapterRowsOf(n)) = k
  /\ {chapters[id].idx : id \in ChapterRowsOf(n)} = 1..k

NovelStatusIs(n, status) == n \in DOMAIN novels /\ novels[n].status = status

(* C4: when extract_chapter yields None for chapter k, nothing is          *)
(* extracted or stored for a later chapter, the stored chapters are        *)
(* exactly 1..k-1, the job's status is error and the novel's is error.     *)
C4_AbortAtFailedChapter ==
  \A j \in DOMAIN jobs :
    task[j].fault = "extract failed" =>
      LET k == task[j].idx
          n == task[j].novel_id
      IN /\ task[j].pc = "returned"
         /\ Len(task[j].chapters_data) = k - 1
         /\ \A i \in k..Len(task[j].chapter_urls) : TextPath(n, i) \notin DOMAIN files
         /\ HasChapters(n, k - 1)
         /\ jobs[j].status = "error"
         /\ NovelStatusIs(n, "error")

(* C5: a task one of whose steps raised has returned, its job is stored    *)
(* with status error and an error message, and the novel of an extraction  *)
(* job has status error.                                                   *)
C5_RaiseEndsInError ==
  \A j \in DOMAIN jobs :
    task[j].fault \notin {"", "extract failed"} =>
      /\ task[j].pc = "returned"
      /\ jobs[j].status = "error"
      /\ jobs[j].error # None
      /\ jobs[j].type = "extract" => NovelStatusIs(task[j].novel_id, "error")

(* C6: an extraction job stored as done has progress 100, its novel is     *)
(* ready with num_chapters the number N of chapter URLs, the chapters 1..N *)
(* are stored, and both packages are written.                              *)
C6_DoneExtractionIsComplete ==
  \A j \in DOMAIN jobs :
    (jobs[j].type = "extract" /\ jobs[j].status = "done") =>
      LET n == task[j].novel_id
          N == Len(task[j].chapter_urls)
      IN /\ jobs[j].progress = 100
         /\ NovelStatusIs(n, "ready")
         /\ n \in DOMAIN novels => novels[n].num_chapters = Some(N)
         /\ HasChapters(n, N)
         /\ TxtPackagePath(n) \in DOMAIN files
         /\ EpubPackagePath(n) \in DOMAIN files

----------------------------------------------------------------------------
(* Properties of novel-wide synthesis jobs *)

IsNovelJob(j) == j \in DOMAIN jobs /\ jobs[j].type = "tts_novel"

(* the chapter list the job read at line 203 is not empty and every        *)
(* chapter in it has audio                                                 *)
AllHadAudio(j) ==
  /\ task[j].chapters # <<>>
  /\ \A i \in DOMAIN task[j].chapters : task[j].chapters[i].row.audio_path # None

(* C8: a novel-wide job that found audio on every chapter of a non-empty   *)
(* novel has, once its task returned, called synthesize for no chapter,    *)
(* written no chapter record, and is stored done with progress 100 (this   *)
(* holds of every such job, so of a second run as well).                   *)
C8_AllAudioRunIsNoOp ==
  \A j \in DOMAIN jobs :
    (IsNovelJob(j) /\ task[j].pc = "returned" /\ AllHadAudio(j)) =>
      /\ task[j].called = {}
      /\ DOMAIN task[j].wrote = {}
      /\ jobs[j].status = "done"
      /\ jobs[j].progress = 100

SnapshotRow(j, id) ==
  LET i == CHOOSE k \in DOMAIN task[j].chapters : task[j].chapters[k].id = id
  IN task[j].chapters[i].row

SynthesisFailed(j) == IsNovelJob(j) /\ task[j].fault = "synthesis raised"

AudioOf(row) ==
  [audio_path |-> row.audio_path, duration_seconds |-> row.duration_seconds,
   tts_provider |-> row.tts_provider]

(* novel-wide job l read its chapter list after the task of j had returned *)
LaterNovelJob(l, j) ==
  /\ IsNovelJob(l)
  /\ j \in task[l].after
  /\ task[l].novel_id = task[j].novel_id

(* the job that last wrote the chapter's audio file and, in the same step, *)
(* its audio info; 0 when there is none                                    *)
LastAudioWriter(id) ==
  LET path == AudioPath(chapters[id].novel_id, chapters[id].idx)
  IN IF path \in DOMAIN files THEN files[path].by ELSE 0

C11_MissingTextAborts ==
  \A j \in DOMAIN jobs :
    (IsNovelJob(j) /\ task[j].pc = "returned" /\ task[j].textless # {}) =>
      jobs[j].status = "error"

(* C11 as amended: a novel-wide job whose chapter list held a chapter      *)
(* without extracted text and without audio is, once its task returned,    *)
(* stored with status error, wherever that chapter stands; a chapter that  *)
(* has audio in the list is skipped before its text is looked at, so the   *)
(* job fails for missing text only at a chapter that had no audio.         *)
C11_MissingTextOfGapAborts ==
  \A j \in DOMAIN jobs :
    IsNovelJob(j) =>
      /\ (task[j].pc = "returned"
            /\ \E i \in task[j].textless :
                 task[j].chapters[i].row.audio_path = None)
           => jobs[j].status = "error"
      /\ task[j].fault = "Missing text for chapter" =>
           /\ task[j].chapters[task[j].idx].row.audio_path = None
           /\ TextMissing(task[j].chapters[task[j].idx].row)
           /\ jobs[j].status = "error"

(* a novel-wide job stored its first chapter and failed at the second,     *)
(* whose text was missing                                                  *)
C11_Witness ==
  \E j \in DOMAIN jobs :
    /\ IsNovelJob(j)
    /\ task[j].fault = "Missing text for chapter"
    /\ task[j].idx = 2
    /\ 2 \in task[j].textless
    /\ DOMAIN task[j].wrote # {}

----------------------------------------------------------------------------
(* Properties of the synthesis requests *)

IsSynthJob(j) == j \in DOMAIN jobs /\ jobs[j].type \in {"tts_chapter", "tts_novel"}

(* C12: a request that is answered with the rejection for an unknown       *)
(* provider inserts no job and schedules no task; every synthesis job that *)
(* is inserted carries a provider of PROVIDERS, so no task ever finds its  *)
(* provider unknown.                                                       *)
C12_UnknownProviderRejected ==
  [][/\ (reply' = Rejected /\ reply' # reply) => (jobs' = jobs /\ task' = task)
     /\ \A j \in DOMAIN jobs' :
          IsSynthJob(j)' =>
            /\ task'[j].provider_name \in PROVIDERS
            /\ task'[j].fault # "Unknown TTS provider"]_vars

(* a synthesis request was rejected after another one had created a job *)
C12_Witness ==
  /\ reply = Rejected
  /\ \E j \in DOMAIN jobs : IsSynthJob(j)

----------------------------------------------------------------------------
(* Properties of fetch_html *)

FailedAttempts(log) == {i \in DOMAIN log : log[i].status # "200"}

(* C13: fetch_html makes at most max_retries attempts, makes no attempt    *)
(* after a 200 response and returns that response's body, returns None     *)
(* exactly when every one of its max_retries attempts failed, and never    *)
(* raises.                                                                 *)
C13_FetchContract ==
  /\ Len(call.log) <= call.max_retries
  /\ call.pc # "raised"
  /\ \A i \in 1..(Len(call.log) - 1) : call.log[i].status # "200"
  /\ call.pc = "returned" =>
       /\ call.result = None <=>
            (FailedAttempts(call.log) = DOMAIN call.log
               /\ Len(call.log) = call.max_retries)
       /\ call.result # None =>
            call.result = Some(call.log[Len(call.log)].text)

(* the third attempt answered 200 after one raised and one got a non-200   *)
(* response                                                                *)
C13_Witness ==
  /\ call.pc = "returned"
  /\ call.result = Some("<html>")
  /\ Len(call.log) = 3
  /\ {call.log[1].status, call.log[2].status} = {"raised", "503"}

(* C14: the k-th sleep (k counted from 0) lasts backoff * 2^k and follows  *)
(* the failed attempt k; a sleep is taken only when attempt k+1 follows    *)
(* it, so a returned call has slept once less than it has attempted.       *)
C14_SleepOnlyBeforeRetry ==
  /\ \A k \in DOMAIN call.sleeps :
       /\ call.sleeps[k] = call.backoff * Pow2(k - 1)
       /\ k \in FailedAttempts(call.log)
  /\ call.pc = "get" => Len(call.sleeps) = Len(call.log)
  /\ (call.pc = "returned" /\ call.log # <<>>) =>
       Len(call.sleeps) = Len(call.log) - 1

----------------------------------------------------------------------------
(* Properties of discover_chapter_urls *)

(* the positions of the page whose anchor text or href contains "chapter"  *)
ChapterAnchors(page) ==
  {k \in DOMAIN page :
     re_search_chapter(page[k].text) \/ re_search_chapter(page[k].href)}

FirstAnchorOf(page, url) ==
  CHOOSE k \in ChapterAnchors(page) :
    /\ absolute_url(page[k].href) = url
    /\ \A m \in ChapterAnchors(page) :
         absolute_url(page[m].href) = url => k <= m

(* C15: on a fetched page, discovery returns, and what it returns is the   *)
(* absolute URLs of exactly the anchors whose text or href contains        *)
(* "chapter", each URL once, in the order of their first occurrence.       *)
C15_DiscoveryReturnsMatches ==
  /\ call.pc # "raised"
  /\ call.pc = "returned" =>
       LET r == call.result[1]
           page == call.page
       IN /\ Range(r) = {absolute_url(page[k].href) : k \in ChapterAnchors(page)}
          /\ \A i, j \in DOMAIN r : i # j => r[i] # r[j]
          /\ \A i, j \in DOMAIN r :
               i < j => FirstAnchorOf(page, r[i]) < FirstAnchorOf(page, r[j])

----------------------------------------------------------------------------
(* Properties of the packagers *)

(* C16: package_epub raises on an empty chapter list and then writes no    *)
(* file; with N >= 1 chapters the written manifest is the navigation item  *)
(* followed by N chapter items, the i-th naming the document of chapter i, *)
(* the spine lists those N items in the same order, and the i-th           *)
(* navigation point has playOrder i and points at chapter i.               *)
C16_EpubStructure ==
  call.pc \in {"raised", "returned"} =>
    LET N == Len(call.chapters)
        path == EpubPackagePath(call.novel_id)
    IN /\ call.pc = "raised" <=> N = 0
       /\ call.pc = "raised" => files = <<>>
       /\ call.pc = "returned" =>
            /\ path \in DOMAIN files
            /\ LET a == files[path].data
               IN /\ Len(a.manifest) = N + 1
                  /\ a.manifest[1] = NcxItem
                  /\ Len(a.spine) = N
                  /\ Len(a.navMap) = N
                  /\ DOMAIN a.xhtml = {ChapterFile(i) : i \in 1..N}
                  /\ \A i \in 1..N :
                       /\ a.manifest[i + 1].href = ChapterFile(i)
                       /\ a.xhtml[ChapterFile(i)].title =
                            html_escape(call.chapters[i].title)
                       /\ a.spine[i].idref = a.manifest[i + 1].id
                       /\ \A k \in 1..N : k # i =>
                            a.manifest[k + 1].id # a.manifest[i + 1].id
                       /\ a.navMap[i].playOrder = i
                       /\ a.navMap[i].src = ChapterFile(i)

(* an archive of three chapters was written *)
C16_Witness ==
  /\ call.pc = "returned"
  /\ Len(call.chapters) = 3
  /\ call.chapters[1] # call.chapters[2]
  /\ Len(files[EpubPackagePath(call.novel_id)].data.spine) = 3

(* t is str without its leading and trailing whitespace *)
IsTrimOf(t, str) ==
  \E a \in 1..(Len(str) + 1), b \in 0..Len(str) :
    /\ t = SubSeq(str, a, b)
    /\ \A k \in 1..(a - 1) : str[k] \in Whitespace
    /\ \A k \in (b + 1)..Len(str) : str[k] \in Whitespace
    /\ t # <<>> => (t[1] \notin Whitespace /\ t[Len(t)] \notin Whitespace)

Trimmed(str) ==
  CHOOSE t \in {SubSeq(str, a, b) : a \in 1..(Len(str) + 1), b \in 0..Len(str)} :
    IsTrimOf(t, str)

(* trimmed title, blank line, trimmed text, two blank lines *)
TxtBlock(chapter) ==
  Trimmed(chapter.title) \o <<"\n", "\n">>
    \o Trimmed(chapter.text) \o <<"\n", "\n", "\n">>

(* C17: the file package_txt leaves is the blocks of the chapters in the   *)
(* order of the list, each the trimmed title, a blank line, the trimmed    *)
(* text and two blank lines; a second call with the same arguments leaves  *)
(* the same file.                                                          *)
C17_TxtOrderAndDeterminism ==
  (call.pc = "returned") =>
    LET data == files[TxtPackagePath(call.novel_id)].data
    IN /\ data = Flatten([i \in DOMAIN call.chapters |-> TxtBlock(call.chapters[i])])
       /\ call.run = 2 => Some(data) = call.first

(* the second call on three chapters, not all alike, has returned *)
C17_Witness ==
  /\ call.pc = "returned"
  /\ call.run = 2
  /\ Len(call.chapters) = 3
  /\ call.chapters[1] # call.chapters[3]
  /\ call.first # Some(<<>>)

----------------------------------------------------------------------------
(* Properties of chunk_text *)

(* the sentences of the text, each named by its line and position *)
SentenceIds(text) ==
  {<<p, k>> \in (DOMAIN text) \X (1..MaxSentences) : k \in DOMAIN text[p]}

Before(a, b) == a.par < b.par \/ (a.par = b.par /\ a.pos < b.pos)

C19_NoMergeAcrossParagraphs ==
  \A c \in DOMAIN call.chunks :
    \A a, b \in DOMAIN call.chunks[c] :
      call.chunks[c][a].par = call.chunks[c][b].par

----------------------------------------------------------------------------
(* Properties of the body extraction *)

(* id candidates, then class candidates, then the article *)
CandidateOrder ==
  << <<"id", "chapter">>, <<"id", "chapter-content">>, <<"id", "content">>,
     <<"id", "chapterContent">>, <<"id", "text">>,
     <<"class", "chapter-content">>, <<"class", "entry-content">>,
     <<"class", "post-content">>, <<"class", "content">>,
     <<"tag", "article">> >>

Fragments(texts) == {texts[i] : i \in {j \in DOMAIN texts : texts[j] # ""}}

Yields(soup, container) ==
  container \in DOMAIN soup /\ Fragments(soup[container]) # {}

TextOf(content_text) == {content_text[i] : i \in DOMAIN content_text}

(* C20: the body text is the fragments of the first container, in the      *)
(* order ids, classes, article, that is in the page and has a fragment;    *)
(* containers that are absent or have no fragment are passed over, and     *)
(* when no container has a fragment the body text is the paragraphs of     *)
(* the page.                                                               *)
C20_FirstCandidateWithText ==
  call.pc = "returned" =>
    /\ \A n \in DOMAIN CandidateOrder :
         ( /\ Yields(call.soup, CandidateOrder[n])
           /\ \A m \in 1..(n - 1) : ~Yields(call.soup, CandidateOrder[m]) )
         => TextOf(call.content_text) = Fragments(call.soup[CandidateOrder[n]])
    /\ (\A n \in DOMAIN CandidateOrder : ~Yields(call.soup, CandidateOrder[n]))
         => TextOf(call.content_text) = Fragments(call.paragraphs)

(* the page has id="content" without a fragment, a div of class content    *)
(* and an article with fragments, and paragraphs: the div's text was taken *)
C20_Witness ==
  /\ call.pc = "returned"
  /\ call.candidates = << <<"id", "content">>, <<"class", "content">>,
                          <<"tag", "article">> >>
  /\ ~Yields(call.soup, <<"id", "content">>)
  /\ Yields(call.soup, <<"class", "content">>)
  /\ Yields(call.soup, <<"tag", "article">>)
  /\ Fragments(call.paragraphs) # {}
  /\ call.content_text = <<"class:content">>

----------------------------------------------------------------------------
(* Properties of the chapter records *)

(* C21: every chapter record has none of audio_path, duration_seconds and  *)
(* tts_provider set, or all three.                                         *)
C21_AudioFieldsAllOrNothing ==
  \A id \in DOMAIN chapters :
    \/ /\ chapters[id].audio_path = None
       /\ chapters[id].duration_seconds = None
       /\ chapters[id].tts_provider = None
    \/ /\ chapters[id].audio_path # None
       /\ chapters[id].duration_seconds # None
       /\ chapters[id].tts_provider # None

(* a novel with a chapter that has audio and a chapter that has none *)
C21_Witness ==
  \E a, b \in DOMAIN chapters :
    /\ chapters[a].novel_id = chapters[b].novel_id
    /\ chapters[a].tts_provider # None
    /\ chapters[b].audio_path = None

IsExtractJob(j) == j \in DOMAIN jobs /\ jobs[j].type = "extract"

(* C22: the chapter records of a novel have the indices 1..k, each once;   *)
(* the record of index i has the i-th chapter URL of the extraction as its *)
(* source URL; a record of index i + 1 is stored only when the record of   *)
(* index i is, and no record is removed or changes its index.              *)
C22_ChaptersInOrdinalOrder ==
  /\ [](\A j \in DOMAIN jobs : IsExtractJob(j) =>
          LET rows == ChapterRowsOf(task[j].novel_id)
          IN /\ {chapters[id].idx : id \in rows} = 1..Cardinality(rows)
             /\ \A id \in rows :
                  /\ chapters[id].idx \in DOMAIN task[j].chapter_urls
                  /\ chapters[id].source_url
                       = task[j].chapter_urls[chapters[id].idx])
  /\ [][ /\ \A id \in DOMAIN chapters :
              /\ id \in DOMAIN chapters'
              /\ chapters'[id].idx = chapters[id].idx
              /\ chapters'[id].novel_id = chapters[id].novel_id
         /\ \A id \in DOMAIN chapters' \ DOMAIN chapters :
              \/ chapters'[id].idx = 1
              \/ \E o \in DOMAIN chapters :
                   /\ chapters[o].novel_id = chapters'[id].novel_id
                   /\ chapters[o].idx = chapters'[id].idx - 1 ]_vars

(* the second of two chapters has been stored and the job is not finished *)
C22_Witness ==
  \E j \in DOMAIN jobs :
    /\ IsExtractJob(j)
    /\ jobs[j].status = "running"
    /\ Len(task[j].chapter_urls) = 2
    /\ Cardinality(ChapterRowsOf(task[j].novel_id)) = 2

----------------------------------------------------------------------------
(* Properties of the store *)

(* C23: after a call of insert_novel with record r has returned, get_novel *)
(* of r's id gives a record with r's fields, and no two novels have the    *)
(* same source_url.                                                        *)
C23_InsertNovelUpserts ==
  /\ (call.novel # None /\ ~call.raised)
       => get_novel(novels, call.id) = call.novel
  /\ \A a, b \in DOMAIN novels :
       novels[a].source_url = novels[b].source_url => a = b

----------------------------------------------------------------------------
(* Properties of the search *)

(* the result of the scan of the database for the call's query and filter *)
NaiveResult == Some(search_naive(call.query, call.audio_available))

(* C24: without Whoosh, search_novels does not raise and returns the       *)
(* result of the naive scan; when the Whoosh search was tried and failed,  *)
(* the result of the naive scan is returned.                               *)
C24_SearchFallsBackToNaive ==
  /\ ~call.whoosh_available =>
       /\ call.pc # "raised"
       /\ call.pc = "returned" => call.result = NaiveResult
  /\ (call.whoosh_failed /\ call.pc = "returned") => call.result = NaiveResult

----------------------------------------------------------------------------
(* Properties of the stored progress *)

(* C25: a running extraction job that has stored chapter idx of total has  *)
(* progress floor(50 * idx / total), at most 50; a running synthesis job   *)
(* has progress at most 90; a job with progress 100 has status done.       *)
C25_ProgressShares ==
  /\ (call.op = "extract" /\ call.status = "running" /\ call.idx >= 1)
       => /\ call.progress = (50 * call.idx) \div call.total
          /\ call.progress <= 50
  /\ (call.op \in {"tts_chapter", "tts_novel"} /\ call.status = "running")
       => call.progress <= 90
  /\ call.progress = 100 => call.status = "done"

----------------------------------------------------------------------------
(* Properties of the synthesis of one chapter *)

(* the chunks of the stored text of a chapter *)
ChunksOf(id) == chunk_text(files[chapters[id].text_path[1]].data)

(* C26: a synthesis task takes the chunks of a chapter one at a time in    *)
(* chunk order; when it stores the chapter's audio, the file holds the     *)
(* outputs of the chunks in chunk order and the stored duration is the sum *)
(* of the chunk durations, each at least 1, hence at least the number of   *)
(* chunks.                                                                 *)
C26_ChunksInOrder ==
  [][\A j \in DOMAIN task :
       LET t == task[j]
           u == task'[j]
       IN /\ u.audio_bytes # t.audio_bytes =>
               \/ u.audio_bytes = <<>> /\ u.cidx = 1
               \/ /\ t.cidx = Len(t.audio_bytes) + 1
                  /\ u.audio_bytes
                       = Append(t.audio_bytes,
                                chunk_audio(t.provider_name, t.chunks[t.cidx]))
          /\ \A id \in DOMAIN u.wrote \ DOMAIN t.wrote :
               LET chunks == ChunksOf(id)
                   seconds == [k \in DOMAIN chunks |-> synth_seconds(chunks[k])]
               IN /\ files'[u.wrote[id].audio_path[1]].data
                       = [k \in DOMAIN chunks |->
                            chunk_audio(t.provider_name, chunks[k])]
                  /\ chapters'[id].audio_path = u.wrote[id].audio_path
                  /\ chapters'[id].duration_seconds = Some(SumSeq(seconds))
                  /\ \A k \in DOMAIN seconds : seconds[k] >= 1
                  /\ SumSeq(seconds) >= Len(chunks)
    ]_vars

(* a job that completed for a chapter of two chunks *)
C26_Witness ==
  \E j \in DOMAIN jobs, id \in DOMAIN chapters :
    /\ jobs[j].status = "done"
    /\ id \in DOMAIN task[j].wrote
    /\ Len(ChunksOf(id)) = 2
    /\ task[j].wrote[id].duration_seconds = chapters[id].duration_seconds
    /\ Len(files[chapters[id].audio_path[1]].data) = 2

----------------------------------------------------------------------------
(* Termination of the jobs *)

(* C27: under the fairness of the event loop every job that has been       *)
(* created reaches the status done or error.                               *)
C27_EveryJobEnds ==
  \A j \in 1..MaxJobs :
    (j \in DOMAIN jobs) ~> (j \in DOMAIN jobs /\ jobs[j].status \in Terminal)

(* an extraction and a synthesis of one of its chapters have both ended *)
C27_Witness ==
  /\ Len(jobs) = 2
  /\ jobs[1].type = "extract" /\ jobs[1].status = "done"
  /\ jobs[2].type = "tts_chapter" /\ jobs[2].status = "done"
  /\ \A j \in DOMAIN task : task[j].pc = "returned"


----------------------------------------------------------------------------
(* Concurrent synthesis jobs *)

InFlight(j) == j \in DOMAIN jobs /\ jobs[j].status \in {"queued", "running"}

(* job j targets chapter c: a single-chapter job for c, or a novel-wide    *)
(* job of c's novel whose loop has not yet passed c                        *)
Targets(j, c) ==
  \/ jobs[j].type = "tts_chapter" /\ task[j].chapter_id = c
  \/ /\ jobs[j].type = "tts_novel"
     /\ chapters[c].novel_id = task[j].novel_id
     /\ \/ task[j].pc \in {"queued", "load"}
        \/ \E i \in DOMAIN task[j].chapters :
             /\ task[j].chapters[i].id = c
             /\ \/ i > task[j].idx
                \/ i = task[j].idx /\ task[j].pc = "synth"

(* C28: no two synthesis jobs that target the same chapter are in flight   *)
(* (queued or running) at the same time.                                   *)
C28_OneInFlightJobPerChapter ==
  \A c \in DOMAIN chapters : \A j, k \in DOMAIN jobs :
    (j # k /\ InFlight(j) /\ InFlight(k)) => ~(Targets(j, c) /\ Targets(k, c))


(* the seconds the provider reported for the chunks whose audio is data *)
DurationOf(data) ==
  LET f[k \in 0..Len(data)] ==
        IF k = 0 THEN 0 ELSE f[k - 1] + synth_seconds(data[k].text)
  IN f[Len(data)]

----------------------------------------------------------------------------
(* The novel record of an extraction job *)

(* C30: from the moment an extraction job's record is created, a novel     *)
(* record with the job's novel id exists in the store and its source URL   *)
(* is the submitted URL, whatever was submitted before.                    *)
C30_JobHasNovelRecord ==
  \A j \in DOMAIN jobs :
    jobs[j].type = "extract" =>
      /\ task[j].novel_id \in DOMAIN novels
      /\ novels[task[j].novel_id].source_url = task[j].url

====
